---- MODULE Spec2Model ----
(***************************************************************************)
(* The Ferret front end described by the tree-sitter grammar (the superset *)
(* variant with generics, constraints, heap types, `!!`, fork/try, and the *)
(* earlier, simpler variant).  The grammar is declarative; what it means   *)
(* is the parser tree-sitter builds from it:                               *)
(*   - the lexer takes, at each offset, the longest match of the token     *)
(*     rules, after skipping the extras;                                   *)
(*   - the parser is an LR parser; a shift/reduce conflict is settled by   *)
(*     the precedence the grammar gives the two productions (prec, then    *)
(*     prec.left / prec.right of the production being reduced), and a      *)
(*     conflict listed under `conflicts` keeps both readings alive as      *)
(*     parse versions (GLR); a version that meets a token it cannot take   *)
(*     is dropped while another one lives.                                 *)
(* The state machine is the parse of one source text: scan the tokens,     *)
(* then parse source_file = repeat(_statement) one statement at a time.    *)
(***************************************************************************)
EXTENDS Integers, Sequences, FiniteSets, TLC

VARIABLES
    lang,      \* which grammar variant parses: "superset" or "simple"
    src,       \* the source text, a sequence of one-character strings
    at,        \* the lexer's offset into src (1-based)
    toks,      \* the tokens scanned so far: <<kind, lexeme>>
    versions,  \* the live parse versions: [pos, nodes]
    errors,    \* the diagnostics so far: "lexical" / "syntax"
    tree,      \* the tree returned: the statements of source_file, in order
    accepted,  \* the grammar variants that parsed this text without an error
    pc         \* "lex", "parse" or "done"

vars == <<lang, src, at, toks, versions, errors, tree, accepted, pc>>

----------------------------------------------------------------------------
(* Bounds of the model. *)

MaxBody == 3

----------------------------------------------------------------------------
(* Sequences. *)

RECURSIVE Strings(_, _)
\* the sequences over S of length at most n
Strings(S, n) ==
    IF n = 0 THEN {<<>>}
    ELSE LET shorter == Strings(S, n - 1)
         IN  shorter \cup {Append(w, c) : w \in shorter, c \in S}

----------------------------------------------------------------------------
(* Lexer: the token rules of the grammar. *)

Digit == {"0", "1", "2", "3", "4", "5", "6", "7", "8", "9"}
OctDigit == {"0", "1", "2", "3", "4", "5", "6", "7"}
BinDigit == {"0", "1"}
HexDigit == Digit \cup {"a", "b", "c", "d", "e", "f", "A", "B", "C", "D", "E", "F"}
Letter ==
    {"a", "b", "c", "d", "e", "f", "g", "h", "i", "j", "k", "l", "m", "n", "o",
     "p", "q", "r", "s", "t", "u", "v", "w", "x", "y", "z",
     "A", "B", "C", "D", "E", "F", "G", "H", "I", "J", "K", "L", "M", "N", "O",
     "P", "Q", "R", "S", "T", "U", "V", "W", "X", "Y", "Z"}
Space == {" ", "\n", "\t", "\r"}

Ch(i) == IF i >= 1 /\ i <= Len(src) THEN src[i] ELSE "EOF"

Max2(a, b) == IF a >= b THEN a ELSE b

RECURSIVE Run(_, _)
\* the number of consecutive characters of class S from offset i on: /[S]*/
Run(i, S) == IF Ch(i) \in S THEN 1 + Run(i + 1, S) ELSE 0

\* /0[xX][0-9a-fA-F][0-9a-fA-F_]*/
HexLen(i) ==
    IF Ch(i) = "0" /\ Ch(i + 1) \in {"x", "X"} /\ Ch(i + 2) \in HexDigit
    THEN 3 + Run(i + 3, HexDigit \cup {"_"})
    ELSE 0

\* /0[oO][0-7][0-7_]*/
OctLen(i) ==
    IF Ch(i) = "0" /\ Ch(i + 1) \in {"o", "O"} /\ Ch(i + 2) \in OctDigit
    THEN 3 + Run(i + 3, OctDigit \cup {"_"})
    ELSE 0

\* /0[bB][01][01_]*/
BinLen(i) ==
    IF Ch(i) = "0" /\ Ch(i + 1) \in {"b", "B"} /\ Ch(i + 2) \in BinDigit
    THEN 3 + Run(i + 3, BinDigit \cup {"_"})
    ELSE 0

\* /[0-9][0-9_]*/
DecLen(i) == IF Ch(i) \in Digit THEN 1 + Run(i + 1, Digit \cup {"_"}) ELSE 0

\* token(choice(hex, octal, binary, decimal)): the longest alternative
integer_literal(i) == Max2(Max2(HexLen(i), OctLen(i)), Max2(BinLen(i), DecLen(i)))

\* /\.[0-9][0-9_]*/ at offset j, 0 when absent
FracLen(j) ==
    IF Ch(j) = "." /\ Ch(j + 1) \in Digit
    THEN 2 + Run(j + 2, Digit \cup {"_"})
    ELSE 0

\* /([eE][+-]?[0-9][0-9_]*)?/ at offset j, 0 when absent
ExpLen(j) ==
    IF Ch(j) \in {"e", "E"}
    THEN LET k == IF Ch(j + 1) \in {"+", "-"} THEN j + 2 ELSE j + 1
         IN  IF Ch(k) \in Digit
             THEN (k - j) + 1 + Run(k + 1, Digit \cup {"_"})
             ELSE 0
    ELSE 0

\* /[0-9][0-9_]*\.[0-9][0-9_]*([eE][+-]?[0-9][0-9_]*)?/
float_literal(i) ==
    LET d == DecLen(i)
        f == FracLen(i + d)
    IN  IF d > 0 /\ f > 0 THEN d + f + ExpLen(i + d + f) ELSE 0

\* /[0-9][0-9_]*(\.[0-9][0-9_]*)?([eE][+-]?[0-9][0-9_]*)?i/
imaginary_literal(i) ==
    LET d == DecLen(i)
        f == FracLen(i + d)
        x == ExpLen(i + d + f)
    IN  IF d > 0 /\ Ch(i + d + f + x) = "i" THEN d + f + x + 1 ELSE 0

\* /[a-zA-Z_][a-zA-Z0-9_]*/
identifier(i) ==
    IF Ch(i) \in Letter \cup {"_"}
    THEN 1 + Run(i + 1, Letter \cup Digit \cup {"_"})
    ELSE 0

\* the string tokens of the grammar that are not words
StringTokens ==
    {"!", "!!", "!=", "#", "%", "%=", "&", "&&", "(", ")", "*", "**", "*=", "+",
     "++", "+=", ",", "-", "--", "-=", "->", ".", "..", "...", "/", "/=", ":",
     "::", ":=", ";", "<", "<=", "=", "==", "=>", ">", ">=", "?", "??", "@", "[",
     "]", "^", "{", "|", "|>", "||", "}", "~"}

\* the choice of primitive_type
primitive_type ==
    {"i8", "i16", "i32", "i64", "i128", "i256", "u8", "u16", "u32", "u64", "u128",
     "u256", "f32", "f64", "f128", "f256", "str", "bool", "byte", "char"}

\* the string tokens that match the word token (word: identifier)
Keywords ==
    primitive_type \cup
    {"as", "break", "catch", "const", "constraint", "continue", "defer", "else",
     "enum", "fn", "for", "fork", "if", "import", "in", "interface", "is", "let",
     "map", "match", "mut", "return", "struct", "try", "type", "union", "while",
     "true", "false", "none", "_"}

RECURSIVE Text(_, _)
\* the n characters of src from offset i on, as one string
Text(i, n) == IF n = 0 THEN "" ELSE src[i] \o Text(i + 1, n - 1)

\* the longest string token at offset i, 0 when none starts there
string_token(i) ==
    LET ns == {n \in 1..3 : i + n - 1 <= Len(src) /\ Text(i, n) \in StringTokens}
    IN  IF ns = {} THEN 0 ELSE CHOOSE n \in ns : \A k \in ns : k <= n

\* the token rules in the order the grammar lists them
TokenRules == <<"imaginary_literal", "integer_literal", "float_literal", "identifier">>

MatchLen(k, i) ==
    CASE k = "imaginary_literal" -> imaginary_literal(i)
      [] k = "integer_literal" -> integer_literal(i)
      [] k = "float_literal" -> float_literal(i)
      [] k = "identifier" -> identifier(i)
      [] OTHER -> string_token(i)

\* the longest match at offset i over all token rules (0: no rule matches)
Longest(i) ==
    LET ls == {MatchLen(TokenRules[n], i) : n \in 1..Len(TokenRules)} \cup {string_token(i)}
    IN  CHOOSE m \in ls : \A l \in ls : l <= m

\* the token the lexer yields at offset i: the rule with the longest match,
\* the earlier rule on a tie; a string token or a keyword is its own kind
NextToken(i) ==
    LET m == Longest(i)
        hits == {n \in 1..Len(TokenRules) : MatchLen(TokenRules[n], i) = m}
        rule == IF hits = {} THEN Text(i, m)
                ELSE TokenRules[CHOOSE n \in hits : \A h \in hits : n <= h]
        kind == IF rule = "identifier" /\ Text(i, m) \in Keywords THEN Text(i, m) ELSE rule
    IN  <<kind, Text(i, m)>>

----------------------------------------------------------------------------
(* Parser: shared pieces.  A rule applied at token index i yields the set  *)
(* of its readings there, each [t |-> node, e |-> index after it]: empty   *)
(* when the rule does not match, more than one only under a conflict the   *)
(* grammar lists.                                                          *)

Tk(i) == IF i >= 1 /\ i <= Len(toks) THEN toks[i][1] ELSE "EOF"
Lx(i) == toks[i][2]
\* word: $ => $.identifier.  A word is matched by the identifier rule first
\* and is handed on as the keyword it spells only where the parse state has
\* an action for that keyword: in a place whose only word is a name, a word
\* spelled like a keyword is read as the identifier.
word(i) == Tk(i) = "identifier" \/ Tk(i) \in Keywords
R(t, e) == [t |-> t, e |-> e]
Absent == <<"absent">>
\* a pending production: precedence p, associativity a, and the tokens f that
\* may follow the expression in its place, beside the infix operators
Ctx(p, a, f) == [p |-> p, a |-> a, f |-> f]

\* How the generated parser settles a shift/reduce conflict: the production
\* being reduced has precedence rp and associativity ra, the production the
\* lookahead would be shifted into has precedence sp.
Resolve(rp, ra, sp) ==
    IF sp > rp THEN "shift"
    ELSE IF sp < rp THEN "reduce"
    ELSE IF ra = "left" THEN "reduce"
    ELSE IF ra = "right" THEN "shift"
    ELSE "conflict"

----------------------------------------------------------------------------
(* Types. *)


optional_type_prec == 2
heap_type_prec == 3
reference_type_prec == 4
result_type_prec == 10
applied_type_prec == 11

RECURSIVE type(_, _), type_operand(_, _), type_climb(_, _), type_list(_, _),
          field_declarations(_), enum_variants(_)

\* type {"," type} [","] up to the closing token
type_list(i, close) ==
    UNION { IF Tk(r.e) = "," /\ Tk(r.e + 1) # close
            THEN {R(<<r.t>> \o m.t, m.e) : m \in type_list(r.e + 1, close)}
            ELSE IF Tk(r.e) = ","
            THEN {R(<<r.t>>, r.e + 1)}
            ELSE {R(<<r.t>>, r.e)}
          : r \in type(i, Ctx(0, "none", {})) }

\* seq("<", type, repeat(seq(",", type)), optional(","), ">")
type_argument_list(i) ==
    IF Tk(i) = "<"
    THEN {R(<<"type_argument_list", l.t>>, l.e + 1) :
            l \in {x \in type_list(i + 1, ">") : Tk(x.e) = ">"}}
    ELSE {}

\* a field without its closing ","
field_declaration_NoComma(i) ==
    IF Tk(i) = "." /\ word(i + 1) /\ Tk(i + 2) = ":"
    THEN {R(<<"field_declaration", <<"field_identifier", Lx(i + 1)>>, r.t>>, r.e) :
            r \in type(i + 3, Ctx(0, "none", {}))}
    ELSE {}

\* seq(".", name, ":", type, ",")
field_declaration(i) ==
    IF Tk(i) = "." /\ word(i + 1) /\ Tk(i + 2) = ":"
    THEN {R(<<"field_declaration", <<"field_identifier", Lx(i + 1)>>, r.t>>, r.e + 1) :
            r \in {x \in type(i + 3, Ctx(0, "none", {})) : Tk(x.e) = ","}}
    ELSE {}

\* repeat(field_declaration)
field_declarations(i) ==
    IF Tk(i) = "."
    THEN UNION { {R(<<f.t>> \o m.t, m.e) : m \in field_declarations(f.e)}
               : f \in field_declaration(i) }
    ELSE {R(<<>>, i)}

\* seq("{", repeat(field_declaration), "}")
struct_body(i) ==
    IF Tk(i) = "{"
    THEN {R(<<"struct_body", l.t>>, l.e + 1) :
            l \in {x \in field_declarations(i + 1) : Tk(x.e) = "}"}}
    ELSE {}

\* enum_variant {"," enum_variant} [","]
enum_variants(i) ==
    IF ~word(i) THEN {}
    ELSE IF Tk(i + 1) = "," /\ Tk(i + 2) # "}"
    THEN {R(<<<<"type_identifier", Lx(i)>>>> \o m.t, m.e) : m \in enum_variants(i + 2)}
    ELSE IF Tk(i + 1) = ","
    THEN {R(<<<<"type_identifier", Lx(i)>>>>, i + 2)}
    ELSE {R(<<<<"type_identifier", Lx(i)>>>>, i + 1)}

enum_body(i) ==
    IF Tk(i) # "{" THEN {}
    ELSE IF Tk(i + 1) = "}" THEN {R(<<"enum_body", <<>>>>, i + 2)}
    ELSE {R(<<"enum_body", l.t>>, l.e + 1) :
            l \in {x \in enum_variants(i + 1) : Tk(x.e) = "}"}}

\* seq("{", optional(seq(type, repeat(seq(",", type)), optional(","))), "}")
union_body(i) ==
    IF Tk(i) # "{" THEN {}
    ELSE IF Tk(i + 1) = "}" THEN {R(<<"union_body", <<>>>>, i + 2)}
    ELSE {R(<<"union_body", l.t>>, l.e + 1) :
            l \in {x \in type_list(i + 1, "}") : Tk(x.e) = "}"}}

struct_type(i) == {R(<<"struct_type", b.t>>, b.e) : b \in struct_body(i + 1)}
enum_type(i) == {R(<<"enum_type", b.t>>, b.e) : b \in enum_body(i + 1)}
union_type(i) == {R(<<"union_type", b.t>>, b.e) : b \in union_body(i + 1)}

\* seq(scope, "::", name)
scoped_type_identifier(i) ==
    IF Tk(i) = "identifier" /\ Tk(i + 1) = "::" /\ word(i + 2)
    THEN {R(<<"scoped_type_identifier", Lx(i), Lx(i + 2)>>, i + 3)}
    ELSE {}

\* a type name: a bare name, a scoped name, or either applied to type
\* arguments; "<" after the name is shifted (applied_type, prec 11) rather
\* than the name reduced to a type (prec 0)
named_type(i) ==
    LET base == IF Tk(i + 1) = "::"
                THEN scoped_type_identifier(i)
                ELSE {R(<<"type_identifier", Lx(i)>>, i + 1)}
    IN  UNION { IF Tk(b.e) = "<" /\ Resolve(0, "none", applied_type_prec) = "shift"
                THEN {R(<<"applied_type", b.t, a.t>>, a.e) : a \in type_argument_list(b.e)}
                ELSE {b}
              : b \in base }

\* "[" size "]" element / "[" "]" element
array_type(i) ==
    IF Tk(i + 1) = "]"
    THEN {R(<<"dynamic_array_type", r.t>>, r.e) : r \in type(i + 2, Ctx(0, "none", {}))}
    ELSE IF Tk(i + 1) = "integer_literal" /\ Tk(i + 2) = "]"
    THEN {R(<<"array_type", <<"integer_literal", Lx(i + 1)>>, r.t>>, r.e) :
            r \in type(i + 3, Ctx(0, "none", {}))}
    ELSE {}

\* seq("map", "[", key, "]", value)
map_type(i) ==
    IF Tk(i + 1) = "["
    THEN UNION { {R(<<"map_type", k.t, v.t>>, v.e) : v \in type(k.e + 1, Ctx(0, "none", {}))}
               : k \in {x \in type(i + 2, Ctx(0, "none", {})) : Tk(x.e) = "]"} }
    ELSE {}

\* prec.right(4, seq("&", optional("mut"), base))
reference_type(i) ==
    LET m == Tk(i + 1) = "mut"
    IN  {R(<<"reference_type", IF m THEN "mut" ELSE "", r.t>>, r.e) :
            r \in type(IF m THEN i + 2 ELSE i + 1, Ctx(reference_type_prec, "right", {}))}

\* "?" before a type name only
optional_type_OfName(i) ==
    IF Tk(i + 1) = "identifier"
    THEN {R(<<"optional_type", r.t>>, r.e) : r \in named_type(i + 1)}
    ELSE {}

\* prec.right(2, seq("?", base))
optional_type(i) ==
    {R(<<"optional_type", r.t>>, r.e) : r \in type(i + 1, Ctx(optional_type_prec, "right", {}))}

\* prec.right(3, seq("#", base))
heap_type(i) ==
    {R(<<"heap_type", r.t>>, r.e) : r \in type(i + 1, Ctx(heap_type_prec, "right", {}))}

\* the alternatives of `type` that do not start with a type
type_operand(i, ctx) ==
    CASE Tk(i) = "struct" -> struct_type(i)
      [] Tk(i) = "enum" -> enum_type(i)
      [] Tk(i) = "union" -> union_type(i)
      [] Tk(i) \in primitive_type -> {R(<<"primitive_type", Tk(i)>>, i + 1)}
      [] Tk(i) = "identifier" -> named_type(i)
      [] Tk(i) = "[" -> array_type(i)
      [] Tk(i) = "map" -> map_type(i)
      [] Tk(i) = "?" -> optional_type(i)
      [] Tk(i) = "#" -> heap_type(i)
      [] Tk(i) = "&" -> reference_type(i)
      [] OTHER -> {}

\* result_type grouping to the left
type_climb_Left(l, ctx) ==
    IF Tk(l.e) = "!" /\ Resolve(ctx.p, ctx.a, result_type_prec) = "shift"
    THEN UNION { type_climb(R(<<"result_type", l.t, r.t>>, r.e), ctx)
               : r \in type(l.e + 1, Ctx(result_type_prec, "left", {})) }
    ELSE {l}

\* result_type: prec.right(10, seq(error_type, "!", success_type)); with a
\* type l read and "!" ahead, the production pending around l (ctx) is
\* reduced first or "!" is shifted
type_climb(l, ctx) ==
    IF Tk(l.e) = "!" /\ Resolve(ctx.p, ctx.a, result_type_prec) = "shift"
    THEN UNION { type_climb(R(<<"result_type", l.t, r.t>>, r.e), ctx)
               : r \in type(l.e + 1, Ctx(result_type_prec, "right", {})) }
    ELSE {l}

type(i, ctx) == UNION { type_climb(l, ctx) : l \in type_operand(i, ctx) }

----------------------------------------------------------------------------
(* Expressions. *)

LiteralTokens ==
    {"imaginary_literal", "integer_literal", "float_literal", "string_literal",
     "char_literal", "byte_literal"}

UnaryOps == {"!", "-", "&", "@", "#", "~"}

BinaryOps ==
    {"|>", "??", "||", "&&", "|", "^", "&", "==", "!=", "<", ">", "<=", ">=",
     "+", "-", "*", "/", "%", "**"}

\* the precedence of each alternative of binary_expression
BinaryPrec(op) ==
    CASE op = "|>" -> 2
      [] op = "??" -> 3
      [] op = "||" -> 4
      [] op = "&&" -> 5
      [] op = "|" -> 6
      [] op = "^" -> 7
      [] op = "&" -> 8
      [] op \in {"==", "!="} -> 9
      [] op \in {"<", ">", "<=", ">="} -> 10
      [] op \in {"+", "-"} -> 11
      [] op \in {"*", "/", "%"} -> 12
      [] op = "**" -> 13

\* every level groups to the left
BinaryAssoc_AllLeft(op) == "left"

\* prec.left for every level but prec.right(13, "**")
BinaryAssoc(op) == IF op = "**" THEN "right" ELSE "left"

catch_prec == 1
range_prec == 2
is_as_prec == 3
unary_prec == 20
call_prec == 40
error_propagate_prec == 41
field_index_prec == 42

InfixTokens == BinaryOps \cup {"catch", "..", "is", "as"}

\* `is` and `as` at the level of `catch`, below `|>`
InfixPrec_IsAsLoosest(k) ==
    CASE k \in BinaryOps -> BinaryPrec(k)
      [] k = ".." -> range_prec
      [] k \in {"catch", "is", "as"} -> catch_prec

\* the precedence of each production that continues an _expression
InfixPrec(k) ==
    CASE k \in BinaryOps -> BinaryPrec(k)
      [] k = "catch" -> catch_prec
      [] k = ".." -> range_prec
      [] k \in {"is", "as"} -> is_as_prec

InfixAssoc(k) == IF k \in BinaryOps THEN BinaryAssoc(k) ELSE "left"

\* the tokens an _expression can start with
ExprStart ==
    LiteralTokens \cup UnaryOps \cup
    {"identifier", "true", "false", "none", "fn", "(", "{", "[", "struct", "enum",
     "match", "..."}

\* the tokens a _statement can start with
StatementStart ==
    ExprStart \cup
    {"import", "let", "const", "constraint", "fn", "type", "if", "while", "for",
     "return", "break", "continue", "defer", "fork", "try"}

\* what may follow an expression that ends a statement: optional(";"), the
\* next statement of repeat(_statement), the block's "}" or the end of input
EdgeFollow == StatementStart \cup {";", "}", "EOF"}

\* the alternatives of _postfix_expression
PostfixKinds ==
    LiteralTokens \cup
    {"identifier", "scoped_identifier", "boolean_literal", "none_literal",
     "function_literal", "parenthesized_expression", "composite_literal",
     "array_literal", "anonymous_struct_literal", "anonymous_enum_literal",
     "match_expression", "field_expression", "index_expression",
     "generic_call_expression", "call_expression", "error_propagate_expression"}

\* choice(identifier, scoped_identifier, field_expression)
generic_call_target == {"identifier", "scoped_identifier", "field_expression"}

RECURSIVE expression(_, _), operand(_, _), climb(_, _), expression_list(_, _),
          statement(_), statements(_), constraint_expression(_)

\* expression {"," expression} [","] up to the closing token
expression_list(i, close) ==
    UNION { IF Tk(r.e) = "," /\ Tk(r.e + 1) # close
            THEN {R(<<r.t>> \o m.t, m.e) : m \in expression_list(r.e + 1, close)}
            ELSE IF Tk(r.e) = ","
            THEN {R(<<r.t>>, r.e + 1)}
            ELSE {R(<<r.t>>, r.e)}
          : r \in expression(i, Ctx(0, "none", {",", close})) }

\* seq("(", optional(seq(expression, repeat(seq(",", expression)), optional(","))), ")")
argument_list(i) ==
    IF Tk(i) # "(" THEN {}
    ELSE IF Tk(i + 1) = ")" THEN {R(<<"argument_list", <<>>>>, i + 2)}
    ELSE {R(<<"argument_list", l.t>>, l.e + 1) :
            l \in {x \in expression_list(i + 1, ")") : Tk(x.e) = ")"}}

\* seq("[", optional(...), "]")
array_literal(i) ==
    IF Tk(i + 1) = "]" THEN {R(<<"array_literal", <<>>>>, i + 2)}
    ELSE {R(<<"array_literal", l.t>>, l.e + 1) :
            l \in {x \in expression_list(i + 1, "]") : Tk(x.e) = "]"}}

\* seq("{", repeat(_statement), "}")
block(i) ==
    IF Tk(i) = "{"
    THEN {R(<<"block", l.t>>, l.e + 1) : l \in {x \in statements(i + 1) : Tk(x.e) = "}"}}
    ELSE {}

\* seq("(", _expression, ")")
parenthesized_expression(i) ==
    {R(<<"parenthesized_expression", r.t>>, r.e + 1) :
        r \in {x \in expression(i + 1, Ctx(0, "none", {")"})) : Tk(x.e) = ")"}}

\* seq(scope, "::", name), or the bare identifier
identifier_expression(i) ==
    IF Tk(i + 1) = "::"
    THEN IF word(i + 2)
         THEN {R(<<"scoped_identifier", Lx(i), Lx(i + 2)>>, i + 3)}
         ELSE {}
    ELSE {R(<<"identifier", Lx(i)>>, i + 1)}

\* seq(name, ":", optional("..."), optional("@"), type, optional(seq("=", default)))
parameter(i) ==
    IF word(i) /\ Tk(i + 1) = ":"
    THEN LET v == Tk(i + 2) = "..."
             j == IF v THEN i + 3 ELSE i + 2
             m == Tk(j) = "@"
             head(ty) == <<"parameter", Lx(i), IF v THEN "..." ELSE "",
                           IF m THEN "@" ELSE "", ty>>
         IN  UNION { IF Tk(ty.e) = "="
                     THEN {R(Append(head(ty.t), d.t), d.e) :
                             d \in expression(ty.e + 1, Ctx(0, "none", {",", ")"}))}
                     ELSE {R(Append(head(ty.t), Absent), ty.e)}
                   : ty \in type(IF m THEN j + 1 ELSE j, Ctx(0, "none", {})) }
    ELSE {}

RECURSIVE parameters(_)
\* parameter {"," parameter} [","]
parameters(i) ==
    UNION { IF Tk(r.e) = "," /\ Tk(r.e + 1) # ")"
            THEN {R(<<r.t>> \o m.t, m.e) : m \in parameters(r.e + 1)}
            ELSE IF Tk(r.e) = ","
            THEN {R(<<r.t>>, r.e + 1)}
            ELSE {R(<<r.t>>, r.e)}
          : r \in parameter(i) }

\* seq("(", optional(seq(parameter, repeat(seq(",", parameter)), optional(","))), ")")
parameter_list(i) ==
    IF Tk(i) # "(" THEN {}
    ELSE IF Tk(i + 1) = ")" THEN {R(<<"parameter_list", <<>>>>, i + 2)}
    ELSE {R(<<"parameter_list", l.t>>, l.e + 1) :
            l \in {x \in parameters(i + 1) : Tk(x.e) = ")"}}

\* choice(type, seq(type, "!", type)): the second alternative reads what
\* result_type (prec 10) reads, and the higher precedence is the one reduced
return_type(i) == type(i, Ctx(0, "none", {}))

\* optional(seq("->", return_type)) at index i
arrow_return_type(i) ==
    IF Tk(i) = "->" THEN return_type(i + 1) ELSE {R(Absent, i)}

\* seq("fn", parameter_list, optional(seq("->", return_type)), block)
function_literal(i) ==
    UNION { UNION { {R(<<"function_literal", ps.t, rt.t, b.t>>, b.e) : b \in block(rt.e)}
                  : rt \in arrow_return_type(ps.e) }
          : ps \in parameter_list(i + 1) }

\* wildcard_pattern: "_"
wildcard_pattern(i) == IF Tk(i) = "_" THEN {R(<<"wildcard_pattern">>, i + 1)} ELSE {}

\* body: choice(block, _expression).  "{" "}" is a block and a
\* composite_literal (prec(12, seq("{", "}"))) alike: the reduction with the
\* higher precedence is taken
match_arm_body(i) ==
    IF Tk(i) = "{" /\ Tk(i + 1) = "}" THEN {R(<<"composite_literal", <<>>>>, i + 2)}
    ELSE IF Tk(i) = "{" THEN block(i)
    ELSE expression(i, Ctx(0, "none", {",", "}"}))

\* the pattern "_" read as the identifier it also spells
match_arm_WildcardAsName(i) ==
    LET ps == IF Tk(i) = "_" THEN {R(<<"identifier", Lx(i)>>, i + 1)}
              ELSE expression(i, Ctx(0, "none", {"=>"}))
    IN  UNION { IF Tk(p.e) = "=>"
                THEN {R(<<"match_arm", p.t, b.t>>, b.e) : b \in match_arm_body(p.e + 1)}
                ELSE {}
              : p \in ps }

\* seq(pattern: choice(wildcard_pattern, _expression), "=>", body)
match_arm(i) ==
    LET ps == IF Tk(i) = "_" THEN wildcard_pattern(i)
              ELSE expression(i, Ctx(0, "none", {"=>"}))
    IN  UNION { IF Tk(p.e) = "=>"
                THEN {R(<<"match_arm", p.t, b.t>>, b.e) : b \in match_arm_body(p.e + 1)}
                ELSE {}
              : p \in ps }

RECURSIVE match_arms(_)
\* seq(match_arm, repeat(seq(",", match_arm)), optional(","))
match_arms(i) ==
    UNION { IF Tk(a.e) = "," /\ Tk(a.e + 1) # "}"
            THEN {R(<<a.t>> \o m.t, m.e) : m \in match_arms(a.e + 1)}
            ELSE IF Tk(a.e) = ","
            THEN {R(<<a.t>>, a.e + 1)}
            ELSE {R(<<a.t>>, a.e)}
          : a \in match_arm(i) }

\* seq("match", value, "{", optional(arms), "}")
match_expression(i) ==
    UNION { IF Tk(v.e) # "{" THEN {}
            ELSE IF Tk(v.e + 1) = "}"
            THEN {R(<<"match_expression", v.t, <<>>>>, v.e + 2)}
            ELSE {R(<<"match_expression", v.t, l.t>>, l.e + 1) :
                    l \in {x \in match_arms(v.e + 1) : Tk(x.e) = "}"}}
          : v \in expression(i + 1, Ctx(0, "none", {"{"})) }

primary_expression(i) ==
    CASE Tk(i) = "identifier" -> identifier_expression(i)
      [] Tk(i) \in LiteralTokens -> {R(<<Tk(i), Lx(i)>>, i + 1)}
      [] Tk(i) \in {"true", "false"} -> {R(<<"boolean_literal", Tk(i)>>, i + 1)}
      [] Tk(i) = "none" -> {R(<<"none_literal", "none">>, i + 1)}
      [] Tk(i) = "(" -> parenthesized_expression(i)
      [] Tk(i) = "[" -> array_literal(i)
      [] Tk(i) = "fn" -> function_literal(i)
      [] Tk(i) = "match" -> match_expression(i)
      [] OTHER -> {}

\* the operand of a prefix operator read with no precedence pending
unary_expression_NoPrec(i, ctx) ==
    LET m == Tk(i) = "&" /\ Tk(i + 1) = "mut"
        inner == Ctx(0, "right", ctx.f)
    IN  IF Tk(i) = "..."
        THEN {R(<<"spread_expression", r.t>>, r.e) : r \in expression(i + 1, inner)}
        ELSE {R(<<"unary_expression", IF m THEN "&mut" ELSE Tk(i), r.t>>, r.e) :
                r \in expression(IF m THEN i + 2 ELSE i + 1, inner)}

\* unary_expression: prec.right(20, seq(op, _expression)), "&" with optional("mut");
\* spread_expression: prec.right(20, seq("...", _expression))
unary_expression(i, ctx) ==
    LET m == Tk(i) = "&" /\ Tk(i + 1) = "mut"
        inner == Ctx(unary_prec, "right", ctx.f)
    IN  IF Tk(i) = "..."
        THEN {R(<<"spread_expression", r.t>>, r.e) : r \in expression(i + 1, inner)}
        ELSE {R(<<"unary_expression", IF m THEN "&mut" ELSE Tk(i), r.t>>, r.e) :
                r \in expression(IF m THEN i + 2 ELSE i + 1, inner)}

operand(i, ctx) ==
    IF Tk(i) \in UnaryOps \cup {"..."}
    THEN unary_expression(i, ctx)
    ELSE primary_expression(i)

\* one postfix operator applied to the _postfix_expression l
postfix_step(l) ==
    CASE Tk(l.e) = "(" ->
            {R(<<"call_expression", l.t, a.t>>, a.e) : a \in argument_list(l.e)}
      [] Tk(l.e) = "[" ->
            {R(<<"index_expression", l.t, r.t>>, r.e + 1) :
                r \in {x \in expression(l.e + 1, Ctx(0, "none", {"]"})) : Tk(x.e) = "]"}}
      [] Tk(l.e) = "." ->
            IF word(l.e + 1)
            THEN {R(<<"field_expression", l.t, <<"field_identifier", Lx(l.e + 1)>>>>, l.e + 2)}
            ELSE {}
      [] Tk(l.e) = "!!" -> {R(<<"error_propagate_expression", l.t>>, l.e + 1)}

PostfixPrec(k) ==
    CASE k = "(" -> call_prec
      [] k = "!!" -> error_propagate_prec
      [] k \in {"[", "."} -> field_index_prec

\* generic_call_expression: seq(target, type_argument_list, argument_list)
generic_call_expression(l) ==
    UNION { {R(<<"generic_call_expression", l.t, ta.t, a.t>>, a.e) : a \in argument_list(ta.e)}
          : ta \in type_argument_list(l.e) }

\* catch_expression: prec.left(1, seq(expression, "catch",
\*   choice(seq(error_name, error_handler, optional(fallback)), fallback)))
catch_expression(l, ctx) ==
    LET j == l.e + 1
        inner == Ctx(catch_prec, "left", ctx.f)
    IN  IF Tk(j) = "identifier" /\ Tk(j + 1) = "{"
           /\ Resolve(0, "none", catch_prec) = "shift"
        THEN UNION {
               \* the handler read and a fallback able to start: the form without
               \* fallback is reduced when the token may follow it, unless
               \* precedence shifts
               IF Tk(b.e) \in ExprStart
                  /\ (Tk(b.e) \notin InfixTokens \cup ctx.f
                      \/ Resolve(catch_prec, InfixAssoc("catch"), catch_prec) = "shift")
               THEN {R(<<"catch_expression", l.t, <<"identifier", Lx(j)>>, b.t, fb.t>>, fb.e) :
                       fb \in expression(b.e, inner)}
               ELSE {R(<<"catch_expression", l.t, <<"identifier", Lx(j)>>, b.t, Absent>>, b.e)}
             : b \in block(j + 1) }
        ELSE {R(<<"catch_expression", l.t, Absent, Absent, fb.t>>, fb.e) :
                fb \in expression(j, inner)}

\* one infix operator applied to the expression l
infix_step(l, ctx) ==
    LET k == Tk(l.e)
        inner == Ctx(InfixPrec(k), InfixAssoc(k), ctx.f)
    IN  CASE k \in BinaryOps ->
               {R(<<"binary_expression", k, l.t, r.t>>, r.e) : r \in expression(l.e + 1, inner)}
          [] k = ".." ->
               {R(<<"range_expression", l.t, r.t>>, r.e) : r \in expression(l.e + 1, inner)}
          [] k = "is" ->
               {R(<<"is_expression", l.t, r.t>>, r.e) : r \in type(l.e + 1, inner)}
          [] k = "as" ->
               {R(<<"cast_expression", l.t, r.t>>, r.e) : r \in type(l.e + 1, inner)}
          [] k = "catch" -> catch_expression(l, ctx)

\* With the expression l read and the production ctx pending around it:
\* a postfix operator after a _postfix_expression is shifted (its precedence
\* against the reduction to _expression, which has none); a "<" after a
\* generic call target is the listed conflict, both readings live; an infix
\* operator is shifted or the pending production reduced, by precedence.
climb(l, ctx) ==
    LET k == Tk(l.e)
        post == l.t[1] \in PostfixKinds /\ k \in {"(", "[", ".", "!!"}
        gen == IF k = "<" /\ l.t[1] \in generic_call_target
               THEN generic_call_expression(l)
               ELSE {}
    IN  IF post /\ Resolve(0, "none", PostfixPrec(k)) = "shift"
        THEN UNION { climb(n, ctx) : n \in postfix_step(l) }
        ELSE UNION { climb(g, ctx) : g \in gen }
             \cup
             (IF k \in InfixTokens /\ Resolve(ctx.p, ctx.a, InfixPrec(k)) = "shift"
              THEN UNION { climb(n, ctx) : n \in infix_step(l, ctx) }
              ELSE {l})

expression(i, ctx) == UNION { climb(l, ctx) : l \in operand(i, ctx) }

----------------------------------------------------------------------------
(* Constraints. *)

\* every alternative of `type`, union_type too
constraint_type_term_AnyType(i) == type(i, Ctx(0, "none", {}))

\* the alternatives of `type` but union_type
constraint_type_term(i) ==
    {r \in type(i, Ctx(0, "none", {})) : r.t[1] # "union_type"}

\* seq(optional("~"), constraint_type_term)
constraint_union_term(i) ==
    IF Tk(i) = "~"
    THEN {R(<<"constraint_union_term", "~", r.t>>, r.e) : r \in constraint_type_term(i + 1)}
    ELSE {R(<<"constraint_union_term", "", r.t>>, r.e) : r \in constraint_type_term(i)}

RECURSIVE constraint_union_terms(_)
constraint_union_terms(i) ==
    UNION { IF Tk(r.e) = "," /\ Tk(r.e + 1) # "}"
            THEN {R(<<r.t>> \o m.t, m.e) : m \in constraint_union_terms(r.e + 1)}
            ELSE IF Tk(r.e) = ","
            THEN {R(<<r.t>>, r.e + 1)}
            ELSE {R(<<r.t>>, r.e)}
          : r \in constraint_union_term(i) }

\* seq("union", "{", optional(seq(term, repeat(seq(",", term)), optional(","))), "}")
constraint_union_expression(i) ==
    IF Tk(i) # "union" \/ Tk(i + 1) # "{" THEN {}
    ELSE IF Tk(i + 2) = "}" THEN {R(<<"constraint_union_expression", <<>>>>, i + 3)}
    ELSE {R(<<"constraint_union_expression", l.t>>, l.e + 1) :
            l \in {x \in constraint_union_terms(i + 2) : Tk(x.e) = "}"}}

\* choice(seq("(", constraint_expression, ")"), constraint_union_expression,
\*        seq(optional("~"), constraint_type_term))
constraint_term(i) ==
    CASE Tk(i) = "(" ->
            {R(<<"constraint_term", "()", r.t>>, r.e + 1) :
                r \in {x \in constraint_expression(i + 1) : Tk(x.e) = ")"}}
      [] Tk(i) = "~" ->
            {R(<<"constraint_term", "~", r.t>>, r.e) : r \in constraint_type_term(i + 1)}
      [] OTHER ->
            {R(<<"constraint_term", "", r.t>>, r.e) :
                r \in constraint_union_expression(i) \cup constraint_type_term(i)}

RECURSIVE constraint_climb(_)
\* prec.left(8, seq(constraint_expression, "&", constraint_term))
constraint_climb(l) ==
    IF Tk(l.e) = "&"
    THEN UNION { constraint_climb(R(<<"constraint_expression", l.t, r.t>>, r.e))
               : r \in constraint_term(l.e + 1) }
    ELSE {l}

constraint_expression(i) ==
    UNION { constraint_climb(R(<<"constraint_expression", Absent, l.t>>, l.e))
          : l \in constraint_term(i) }

----------------------------------------------------------------------------
(* Declarations and statements. *)

\* ";" closes every statement
terminator_Required(e) == IF Tk(e) = ";" THEN {e + 1} ELSE {}

\* the ";" that closes a statement: optional(";")
terminator(e) == IF Tk(e) = ";" THEN {e + 1} ELSE {e}

Closed(rs) == UNION { {R(r.t, e) : e \in terminator(r.e)} : r \in rs }

\* seq("import", path, optional(seq("as", alias)), optional(";"))
import_declaration(i) ==
    IF Tk(i + 1) # "string_literal" THEN {}
    ELSE IF Tk(i + 2) = "as"
    THEN IF word(i + 3)
         THEN Closed({R(<<"import_declaration", Lx(i + 1), <<"identifier", Lx(i + 3)>>>>, i + 4)})
         ELSE {}
    ELSE Closed({R(<<"import_declaration", Lx(i + 1), Absent>>, i + 2)})

\* the value after "=" may be left out
declaration_item_EmptyValue(i) ==
    IF ~word(i) THEN {}
    ELSE LET tys == IF Tk(i + 1) = ":"
                    THEN type(i + 2, Ctx(0, "none", {}))
                    ELSE {R(Absent, i + 1)}
         IN  UNION { IF Tk(ty.e) \in {":=", "="} /\ Tk(ty.e + 1) \in ExprStart
                     THEN {R(<<"declaration_item", Lx(i), ty.t, v.t>>, v.e) :
                             v \in expression(ty.e + 1, Ctx(0, "none", EdgeFollow \cup {","}))}
                     ELSE IF Tk(ty.e) \in {":=", "="}
                     THEN {R(<<"declaration_item", Lx(i), ty.t, Absent>>, ty.e + 1)}
                     ELSE {R(<<"declaration_item", Lx(i), ty.t, Absent>>, ty.e)}
                   : ty \in tys }

\* seq(name, optional(seq(":", type)),
\*     optional(choice(seq(":=", value), seq("=", value))))
declaration_item(i) ==
    IF ~word(i) THEN {}
    ELSE LET tys == IF Tk(i + 1) = ":"
                    THEN type(i + 2, Ctx(0, "none", {}))
                    ELSE {R(Absent, i + 1)}
         IN  UNION { IF Tk(ty.e) \in {":=", "="}
                     THEN {R(<<"declaration_item", Lx(i), ty.t, v.t>>, v.e) :
                             v \in expression(ty.e + 1, Ctx(0, "none", EdgeFollow \cup {","}))}
                     ELSE {R(<<"declaration_item", Lx(i), ty.t, Absent>>, ty.e)}
                   : ty \in tys }

RECURSIVE declaration_items(_)
\* seq(declaration_item, repeat(seq(",", declaration_item)))
declaration_items(i) ==
    UNION { IF Tk(r.e) = ","
            THEN {R(<<r.t>> \o m.t, m.e) : m \in declaration_items(r.e + 1)}
            ELSE {R(<<r.t>>, r.e)}
          : r \in declaration_item(i) }

\* seq("let", declarations, optional(";"))
variable_declaration(i) ==
    Closed({R(<<"variable_declaration", l.t>>, l.e) : l \in declaration_items(i + 1)})

\* seq("const", declarations, optional(";"))
constant_declaration(i) ==
    Closed({R(<<"constant_declaration", l.t>>, l.e) : l \in declaration_items(i + 1)})

\* seq("constraint", name, "=", value, optional(";"))
constraint_declaration(i) ==
    IF word(i + 1) /\ Tk(i + 2) = "="
    THEN Closed({R(<<"constraint_declaration", Lx(i + 1), c.t>>, c.e) :
                   c \in constraint_expression(i + 3)})
    ELSE {}

\* seq(name, optional(seq(":", constraint)))
type_parameter(i) ==
    IF ~word(i) THEN {}
    ELSE IF Tk(i + 1) = ":"
    THEN {R(<<"type_parameter", Lx(i), c.t>>, c.e) : c \in constraint_expression(i + 2)}
    ELSE {R(<<"type_parameter", Lx(i), Absent>>, i + 1)}

RECURSIVE type_parameters(_)
type_parameters(i) ==
    UNION { IF Tk(r.e) = "," /\ Tk(r.e + 1) # ">"
            THEN {R(<<r.t>> \o m.t, m.e) : m \in type_parameters(r.e + 1)}
            ELSE IF Tk(r.e) = ","
            THEN {R(<<r.t>>, r.e + 1)}
            ELSE {R(<<r.t>>, r.e)}
          : r \in type_parameter(i) }

\* seq("<", type_parameter, repeat(seq(",", type_parameter)), optional(","), ">")
type_parameter_list(i) ==
    {R(<<"type_parameter_list", l.t>>, l.e + 1) :
        l \in {x \in type_parameters(i + 1) : Tk(x.e) = ">"}}

\* optional(type_parameter_list) at index i
optional_type_parameter_list(i) ==
    IF Tk(i) = "<" THEN type_parameter_list(i) ELSE {R(Absent, i)}

\* seq("type", name, optional(type_parameters), type, optional(";"))
type_declaration(i) ==
    IF ~word(i + 1) THEN {}
    ELSE Closed(UNION { {R(<<"type_declaration", Lx(i + 1), tp.t, ty.t>>, ty.e) :
                          ty \in type(tp.e, Ctx(0, "none", {}))}
                      : tp \in optional_type_parameter_list(i + 2) })

\* seq("(", name, ":", optional("@"), type, ")")
method_receiver(i) ==
    IF Tk(i) = "(" /\ word(i + 1) /\ Tk(i + 2) = ":"
    THEN LET m == Tk(i + 3) = "@"
         IN  {R(<<"method_receiver", Lx(i + 1), IF m THEN "@" ELSE "", ty.t>>, ty.e + 1) :
                ty \in {x \in type(IF m THEN i + 4 ELSE i + 3, Ctx(0, "none", {})) :
                          Tk(x.e) = ")"}}
    ELSE {}

\* a function never has a receiver
optional_method_receiver_Never(i) == {R(Absent, i)}

\* optional(method_receiver) at index i
optional_method_receiver(i) ==
    IF Tk(i) = "(" THEN method_receiver(i) ELSE {R(Absent, i)}

\* choice(block, ";") at index i
function_body(i) ==
    IF Tk(i) = ";" THEN {R(Absent, i + 1)} ELSE block(i)

\* seq("fn", optional(method_receiver), name, optional(type_parameters),
\*     parameters, optional(seq("->", return_type)), choice(body, ";"))
function_declaration(i) ==
    UNION { IF ~word(rc.e) THEN {}
            ELSE UNION { UNION { UNION {
                   {R(<<"function_declaration", rc.t, Lx(rc.e), tp.t, ps.t, rt.t, b.t>>, b.e) :
                      b \in function_body(rt.e)}
                   : rt \in arrow_return_type(ps.e) }
                   : ps \in parameter_list(tp.e) }
                   : tp \in optional_type_parameter_list(rc.e + 1) }
          : rc \in optional_method_receiver(i + 1) }

RECURSIVE if_statement(_)
\* seq("if", condition, consequence, optional(seq("else", choice(block, if_statement))))
if_statement(i) ==
    UNION { UNION {
              IF Tk(b.e) = "else"
              THEN {R(<<"if_statement", c.t, b.t, a.t>>, a.e) :
                      a \in IF Tk(b.e + 1) = "if" THEN if_statement(b.e + 1) ELSE block(b.e + 1)}
              ELSE {R(<<"if_statement", c.t, b.t, Absent>>, b.e)}
            : b \in block(c.e) }
          : c \in expression(i + 1, Ctx(0, "none", {"{"})) }

\* seq("while", condition, body)
while_statement(i) ==
    UNION { {R(<<"while_statement", c.t, b.t>>, b.e) : b \in block(c.e)}
          : c \in expression(i + 1, Ctx(0, "none", {"{"})) }

\* seq("for", choice(seq(index, ",", value), variable), "in", iterable, body)
for_statement(i) ==
    LET two == word(i + 1) /\ Tk(i + 2) = "," /\ word(i + 3)
        one == word(i + 1) /\ Tk(i + 2) = "in"
        j == IF two THEN i + 4 ELSE i + 2
        head == IF two THEN <<"for_statement", Lx(i + 1), Lx(i + 3)>>
                ELSE <<"for_statement", "", Lx(i + 1)>>
    IN  IF (two \/ one) /\ Tk(j) = "in"
        THEN UNION { {R(head \o <<x.t, b.t>>, b.e) : b \in block(x.e)}
                   : x \in expression(j + 1, Ctx(0, "none", {"{"})) }
        ELSE {}

\* optional("!") after the returned value
return_bang(r) ==
    IF Tk(r.e) = "!" /\ Resolve(0, "right", 0) = "shift"
    THEN R(<<"return_statement", r.t, "!">>, r.e + 1)
    ELSE R(<<"return_statement", r.t, "">>, r.e)

\* prec.right(seq("return", optional(_expression), optional("!"), optional(";")))
return_statement(i) ==
    IF Tk(i + 1) \in ExprStart /\ ~(Tk(i + 1) = "!" /\ Tk(i + 2) \notin ExprStart)
       /\ Resolve(0, "right", 0) = "shift"
    THEN Closed({return_bang(v) : v \in expression(i + 1, Ctx(0, "right", EdgeFollow \cup {"!"}))})
    ELSE Closed({return_bang(R(Absent, i + 1))})

\* seq("break", optional(";")) / seq("continue", optional(";"))
break_statement(i) == Closed({R(<<"break_statement">>, i + 1)})
continue_statement(i) == Closed({R(<<"continue_statement">>, i + 1)})

\* prec.right(seq("defer", _expression, optional(";")))
defer_statement(i) ==
    Closed({R(<<"defer_statement", x.t>>, x.e) : x \in expression(i + 1, Ctx(0, "right", EdgeFollow))})

\* seq("fork", _expression, optional(";"))
fork_statement(i) ==
    Closed({R(<<"fork_statement", x.t>>, x.e) : x \in expression(i + 1, Ctx(0, "none", EdgeFollow))})

\* seq("try", expression, optional(";"))
try_statement(i) ==
    Closed({R(<<"try_statement", x.t>>, x.e) : x \in expression(i + 1, Ctx(0, "none", EdgeFollow))})

CompoundOps == {"+=", "-=", "*=", "/=", "%="}

\* the statements that start with an expression:
\*   assignment_statement: seq(_expression, "=", _expression, optional(";"))
\*   compound_assignment_statement: seq(_expression, choice("+=", ...), _expression, optional(";"))
\*   increment_statement: seq(_expression, choice("++", "--"), optional(";"))
\*   expression_statement: seq(_expression, optional(";"))
expression_led_statement(i) ==
    LET rhs(j) == expression(j, Ctx(0, "none", EdgeFollow))
    IN  Closed(UNION {
          CASE Tk(l.e) = "=" ->
                 {R(<<"assignment_statement", l.t, r.t>>, r.e) : r \in rhs(l.e + 1)}
            [] Tk(l.e) \in CompoundOps ->
                 {R(<<"compound_assignment_statement", Tk(l.e), l.t, r.t>>, r.e) : r \in rhs(l.e + 1)}
            [] Tk(l.e) \in {"++", "--"} ->
                 {R(<<"increment_statement", Tk(l.e), l.t>>, l.e + 1)}
            [] OTHER -> {R(<<"expression_statement", l.t>>, l.e)}
          : l \in expression(i, Ctx(0, "none", EdgeFollow \cup CompoundOps \cup {"=", "++", "--"})) })

\* the choice of _statement, by the token it starts with
statement(i) ==
    CASE Tk(i) = "import" -> import_declaration(i)
      [] Tk(i) = "let" -> variable_declaration(i)
      [] Tk(i) = "const" -> constant_declaration(i)
      [] Tk(i) = "constraint" -> constraint_declaration(i)
      [] Tk(i) = "type" -> type_declaration(i)
      [] Tk(i) = "fn" -> function_declaration(i) \cup expression_led_statement(i)
      [] Tk(i) = "if" -> if_statement(i)
      [] Tk(i) = "while" -> while_statement(i)
      [] Tk(i) = "for" -> for_statement(i)
      [] Tk(i) = "return" -> return_statement(i)
      [] Tk(i) = "break" -> break_statement(i)
      [] Tk(i) = "continue" -> continue_statement(i)
      [] Tk(i) = "defer" -> defer_statement(i)
      [] Tk(i) = "fork" -> fork_statement(i)
      [] Tk(i) = "try" -> try_statement(i)
      [] Tk(i) \in ExprStart -> expression_led_statement(i)
      [] OTHER -> {}

\* repeat(_statement) up to the block's "}"
statements(i) ==
    IF Tk(i) = "}" THEN {R(<<>>, i)}
    ELSE UNION { {R(<<s.t>> \o m.t, m.e) : m \in statements(s.e)} : s \in statement(i) }

----------------------------------------------------------------------------
(* The simpler variant (src/grammar.js).  It has no word token and ends    *)
(* every simple statement with a mandatory ";".  Modelled are all its      *)
(* statements, and those of its expressions and types that are written in  *)
(* tokens the two variants share.  Left out are type_identifier and what   *)
(* is built on it or on a brace (struct, enum, union and interface types,  *)
(* composite and anonymous literals), match_expression, scoped_identifier  *)
(* and the "&'" operator; a field_identifier is spelled like an            *)
(* identifier and stands as one in the token sequence.                     *)

\* the precedence of the alternatives of binary_expression, and of
\* catch_expression, range_expression, is_expression and cast_expression
simple_prec(k) ==
    CASE k \in {"||", "catch"} -> 1
      [] k \in {"&&", ".."} -> 2
      [] k \in {"==", "!=", "is", "as"} -> 3
      [] k \in {"<", ">", "<=", ">="} -> 4
      [] k \in {"+", "-"} -> 5
      [] k \in {"*", "/", "%"} -> 6
      [] k = "**" -> 7
      [] k = "??" -> 8

\* prec.left for each of them but prec.right(7, "**")
simple_assoc(k) == IF k = "**" THEN "right" ELSE "left"

\* prec.right(9, ...) of unary_expression, prec(10, ...) of call_expression,
\* prec(11, ...) of field_expression and index_expression
simple_postfix_prec(k) == IF k = "(" THEN 10 ELSE 11

RECURSIVE simple_type(_, _), simple_expression(_, _), simple_climb(_, _),
          simple_expression_list(_, _), simple_statement(_), simple_statements(_)

\* optional_type: prec(1, seq(base, "?")): against the reduction of the base
\* to a type (no precedence) the "?" is shifted
simple_optional_type(r) ==
    IF Tk(r.e) = "?" THEN R(<<"optional_type", r.t>>, r.e + 1) ELSE r

\* primitive_type, array_type, dynamic_array_type, map_type: the bases an
\* optional_type and a reference_type share
simple_base_type(i) ==
    CASE Tk(i) \in primitive_type -> {R(<<"primitive_type", Lx(i)>>, i + 1)}
      [] Tk(i) = "[" /\ Tk(i + 1) = "]" ->
           {R(<<"dynamic_array_type", r.t>>, r.e) : r \in simple_type(i + 2, TRUE)}
      [] Tk(i) = "[" /\ Tk(i + 1) = "integer_literal" /\ Tk(i + 2) = "]" ->
           {R(<<"array_type", Lx(i + 1), r.t>>, r.e) : r \in simple_type(i + 3, TRUE)}
      [] Tk(i) = "map" /\ Tk(i + 1) = "[" ->
           UNION { {R(<<"map_type", k.t, v.t>>, v.e) : v \in simple_type(k.e + 1, TRUE)}
                 : k \in {x \in simple_type(i + 2, FALSE) : Tk(x.e) = "]"} }
      [] OTHER -> {}

\* type: the choice of its alternatives.  opt says whether "?" may follow
\* the type where it stands: then reference_type, prec(2, ...), is reduced
\* before the "?" of an optional_type base, prec(1, ...), is shifted.
\* result_type is prec.right(10, seq(type, "!", type)).
simple_type(i, opt) ==
    LET first ==
          IF Tk(i) = "&"
          THEN LET j == IF Tk(i + 1) = "mut" THEN i + 2 ELSE i + 1
               IN  {R(<<"reference_type", b.t>>, b.e) :
                      b \in {IF opt THEN r ELSE simple_optional_type(r) : r \in simple_base_type(j)}}
          ELSE {simple_optional_type(r) : r \in simple_base_type(i)}
    IN  UNION { IF Tk(l.e) = "!"
                THEN {R(<<"result_type", l.t, r.t>>, r.e) : r \in simple_type(l.e + 1, opt)}
                ELSE {l}
              : l \in first }

\* the binary operators, "catch", "..", "is" and "as"
SimpleInfix ==
    {"||", "&&", "==", "!=", "<", ">", "<=", ">=", "+", "-", "*", "/", "%", "**",
     "??", "catch", "..", "is", "as"}

\* the tokens an _expression of the modelled part starts with
SimpleExprStart ==
    (LiteralTokens \ {"imaginary_literal"}) \cup
    {"identifier", "true", "false", "none", "(", "[", "!", "-", "&"}

\* seq(_expression, repeat(seq(",", _expression)), optional(",")) up to the
\* closing token, of argument_list and array_literal
simple_expression_list(i, close) ==
    IF Tk(i) = close THEN {R(<<>>, i + 1)}
    ELSE UNION { IF Tk(r.e) = "," /\ Tk(r.e + 1) # close
                 THEN {R(<<r.t>> \o m.t, m.e) : m \in simple_expression_list(r.e + 1, close)}
                 ELSE IF Tk(r.e) = "," THEN {R(<<r.t>>, r.e + 2)}
                 ELSE IF Tk(r.e) = close THEN {R(<<r.t>>, r.e + 1)}
                 ELSE {}
               : r \in simple_expression(i, Ctx(0, "none", {})) }

\* seq("{", repeat(_statement), "}")
simple_block(i) ==
    IF Tk(i) = "{"
    THEN {R(<<"block", l.t>>, l.e + 1) : l \in {x \in simple_statements(i + 1) : Tk(x.e) = "}"}}
    ELSE {}

\* the alternatives of _expression that start with their own token:
\* literals, identifier, parenthesized_expression, array_literal and
\* unary_expression, prec.right(9, seq(op, _expression))
simple_operand(i) ==
    CASE Tk(i) \in {"!", "-"} ->
           {R(<<"unary_expression", Tk(i), r.t>>, r.e) :
              r \in simple_expression(i + 1, Ctx(9, "right", {}))}
      [] Tk(i) = "&" ->
           LET j == IF Tk(i + 1) = "mut" THEN i + 2 ELSE i + 1
           IN  {R(<<"unary_expression", IF j = i + 2 THEN "&mut" ELSE "&", r.t>>, r.e) :
                  r \in simple_expression(j, Ctx(9, "right", {}))}
      [] Tk(i) = "(" ->
           {R(<<"parenthesized_expression", r.t>>, r.e + 1) :
              r \in {x \in simple_expression(i + 1, Ctx(0, "none", {})) : Tk(x.e) = ")"}}
      [] Tk(i) = "[" ->
           {R(<<"array_literal", l.t>>, l.e) : l \in simple_expression_list(i + 1, "]")}
      [] Tk(i) \in {"true", "false"} -> {R(<<"boolean_literal", Tk(i)>>, i + 1)}
      [] Tk(i) = "none" -> {R(<<"none_literal">>, i + 1)}
      [] Tk(i) \in SimpleExprStart -> {R(<<Tk(i), Lx(i)>>, i + 1)}
      [] OTHER -> {}

\* catch_expression after "catch": seq(error_name, error_handler, fallback)
\* or the fallback alone; both end in the fallback
simple_catch(l, j) ==
    LET fallback(k) == simple_expression(k, Ctx(1, "left", {}))
    IN  IF Tk(j) = "identifier" /\ Tk(j + 1) = "{"
        THEN UNION { {R(<<"catch_expression", l.t, Lx(j), b.t, f.t>>, f.e) : f \in fallback(b.e)}
                   : b \in simple_block(j + 1) }
        ELSE {R(<<"catch_expression", l.t, Absent, Absent, f.t>>, f.e) : f \in fallback(j)}

\* the alternatives of _expression that start with an _expression: what is
\* read after the expression l, under the pending production ctx
simple_climb(l, ctx) ==
    LET k == Tk(l.e)
        step ==
          CASE k = "(" ->
                 {R(<<"call_expression", l.t, a.t>>, a.e) : a \in simple_expression_list(l.e + 1, ")")}
            [] k = "[" ->
                 {R(<<"index_expression", l.t, r.t>>, r.e + 1) :
                    r \in {x \in simple_expression(l.e + 1, Ctx(0, "none", {})) : Tk(x.e) = "]"}}
            [] k = "." ->
                 IF Tk(l.e + 1) = "identifier"
                 THEN {R(<<"field_expression", l.t, Lx(l.e + 1)>>, l.e + 2)}
                 ELSE {}
            [] k \in {"is", "as"} ->
                 {R(<<IF k = "is" THEN "is_expression" ELSE "cast_expression", l.t, t.t>>, t.e) :
                    t \in simple_type(l.e + 1, FALSE)}
            [] k = "catch" -> simple_catch(l, l.e + 1)
            [] k = ".." ->
                 {R(<<"range_expression", l.t, r.t>>, r.e) :
                    r \in simple_expression(l.e + 1, Ctx(2, "left", {}))}
            [] OTHER ->
                 {R(<<"binary_expression", k, l.t, r.t>>, r.e) :
                    r \in simple_expression(l.e + 1, Ctx(simple_prec(k), simple_assoc(k), {}))}
        shifts ==
          IF k \in {"(", "[", "."}
          THEN Resolve(ctx.p, ctx.a, simple_postfix_prec(k)) = "shift"
          ELSE k \in SimpleInfix /\ Resolve(ctx.p, ctx.a, simple_prec(k)) = "shift"
    IN  IF shifts THEN UNION {simple_climb(n, ctx) : n \in step} ELSE {l}

\* _expression read at i under the pending production ctx
simple_expression(i, ctx) ==
    UNION {simple_climb(l, ctx) : l \in simple_operand(i)}

\* the ";" that ends a statement: seq(..., ";")
simple_closed(rs) == {R(r.t, r.e + 1) : r \in {x \in rs : Tk(x.e) = ";"}}

RECURSIVE simple_declaration_items(_), simple_parameters(_), simple_if_statement(_)

\* seq(declaration_item, repeat(seq(",", declaration_item))), each
\* seq(name, optional(seq(":", type)), optional(choice(seq(":=", value), seq("=", value))))
simple_declaration_items(i) ==
    LET typed == IF Tk(i + 1) = ":" THEN simple_type(i + 2, FALSE) ELSE {R(Absent, i + 1)}
        item(t) ==
          IF Tk(t.e) \in {":=", "="}
          THEN {R(<<"declaration_item", Lx(i), t.t, v.t>>, v.e) :
                  v \in simple_expression(t.e + 1, Ctx(0, "none", {}))}
          ELSE {R(<<"declaration_item", Lx(i), t.t, Absent>>, t.e)}
        more(d) ==
          IF Tk(d.e) = ","
          THEN {R(<<d.t>> \o m.t, m.e) : m \in simple_declaration_items(d.e + 1)}
          ELSE {R(<<d.t>>, d.e)}
    IN  IF Tk(i) # "identifier" THEN {}
        ELSE UNION { UNION {more(d) : d \in item(t)} : t \in typed }

\* parameter_list after its "(": optional(seq(parameter, repeat(seq(",",
\* parameter)), optional(","))), ")", each parameter
\* seq(name, ":", optional("..."), type)
simple_parameters(i) ==
    IF Tk(i) = ")" THEN {R(<<>>, i + 1)}
    ELSE IF Tk(i) = "identifier" /\ Tk(i + 1) = ":"
    THEN LET j == IF Tk(i + 2) = "..." THEN i + 3 ELSE i + 2
             p(t) == <<"parameter", Lx(i), j = i + 3, t.t>>
         IN  UNION { IF Tk(t.e) = "," /\ Tk(t.e + 1) # ")"
                     THEN {R(<<p(t)>> \o m.t, m.e) : m \in simple_parameters(t.e + 1)}
                     ELSE IF Tk(t.e) = "," THEN {R(<<p(t)>>, t.e + 2)}
                     ELSE IF Tk(t.e) = ")" THEN {R(<<p(t)>>, t.e + 1)}
                     ELSE {}
                   : t \in simple_type(j, FALSE) }
    ELSE {}

\* seq("(", name, ":", "&", optional(choice("mut", "'")), type, optional("?"), ")")
simple_method_receiver(i) ==
    IF Tk(i) = "(" /\ Tk(i + 1) = "identifier" /\ Tk(i + 2) = ":" /\ Tk(i + 3) = "&"
    THEN LET j == IF Tk(i + 4) \in {"mut", "'"} THEN i + 5 ELSE i + 4
             close(t) == IF Tk(t.e) = "?" THEN t.e + 1 ELSE t.e
         IN  {R(<<"method_receiver", Lx(i + 1), Tk(i + 4) = "mut", t.t>>, close(t) + 1) :
                t \in {x \in simple_type(j, TRUE) : Tk(close(x)) = ")"}}
    ELSE {}

\* seq("fn", optional(method_receiver), name, parameter_list,
\*     optional(seq("->", return_type)), block)
simple_function_declaration(i) ==
    LET receiver == IF Tk(i + 1) = "(" THEN simple_method_receiver(i + 1) ELSE {R(Absent, i + 1)}
        signature(v) ==
          IF Tk(v.e) = "identifier" /\ Tk(v.e + 1) = "(" THEN simple_parameters(v.e + 2) ELSE {}
        returns(p) == IF Tk(p.e) = "->" THEN simple_type(p.e + 1, FALSE) ELSE {R(Absent, p.e)}
    IN  UNION { UNION { UNION {
          {R(<<"function_declaration", v.t, Lx(v.e), p.t, t.t, b.t>>, b.e) : b \in simple_block(t.e)}
          : t \in returns(p) } : p \in signature(v) } : v \in receiver }

\* seq("if", condition, consequence, optional(seq("else", choice(block, if_statement))))
simple_if_statement(i) ==
    LET alternative(b) ==
          IF Tk(b.e) # "else" THEN {R(Absent, b.e)}
          ELSE IF Tk(b.e + 1) = "if" THEN simple_if_statement(b.e + 1)
          ELSE simple_block(b.e + 1)
    IN  UNION { UNION {
          {R(<<"if_statement", c.t, b.t, a.t>>, a.e) : a \in alternative(b)}
          : b \in simple_block(c.e) } : c \in simple_expression(i + 1, Ctx(0, "none", {})) }

\* seq("for", "let", variable, "in", range_expression, block): the range is
\* a range_expression, no other _expression
simple_for_statement(i) ==
    IF Tk(i + 1) = "let" /\ Tk(i + 2) = "identifier" /\ Tk(i + 3) = "in"
    THEN UNION { {R(<<"for_statement", Lx(i + 2), r.t, b.t>>, b.e) : b \in simple_block(r.e)}
               : r \in {x \in simple_expression(i + 4, Ctx(0, "none", {})) :
                          x.t[1] = "range_expression"} }
    ELSE {}

\* seq("return", optional(_expression), optional("!"), ";")
simple_return_statement(i) ==
    LET value ==
          IF Tk(i + 1) \in SimpleExprStart /\ ~(Tk(i + 1) = "!" /\ Tk(i + 2) \notin SimpleExprStart)
          THEN simple_expression(i + 1, Ctx(0, "none", {}))
          ELSE {R(Absent, i + 1)}
    IN  simple_closed({ IF Tk(v.e) = "!"
                        THEN R(<<"return_statement", v.t, TRUE>>, v.e + 1)
                        ELSE R(<<"return_statement", v.t, FALSE>>, v.e)
                      : v \in value })

\* assignment_statement, compound_assignment_statement, increment_statement
\* and expression_statement: seq(_expression, ..., ";")
simple_expression_led_statement(i) ==
    LET rhs(j) == simple_expression(j, Ctx(0, "none", {}))
    IN  simple_closed(UNION {
          CASE Tk(l.e) = "=" ->
                 {R(<<"assignment_statement", l.t, r.t>>, r.e) : r \in rhs(l.e + 1)}
            [] Tk(l.e) \in CompoundOps ->
                 {R(<<"compound_assignment_statement", Tk(l.e), l.t, r.t>>, r.e) : r \in rhs(l.e + 1)}
            [] Tk(l.e) \in {"++", "--"} ->
                 {R(<<"increment_statement", Tk(l.e), l.t>>, l.e + 1)}
            [] OTHER -> {R(<<"expression_statement", l.t>>, l.e)}
          : l \in rhs(i) })

\* the choice of _statement, by the token it starts with
simple_statement(i) ==
    LET one(kind) == {R(<<kind, r.t>>, r.e) : r \in simple_expression(i + 1, Ctx(0, "none", {}))}
    IN  CASE Tk(i) = "import" ->
               IF Tk(i + 1) # "string_literal" THEN {}
               ELSE IF Tk(i + 2) # "as"
               THEN simple_closed({R(<<"import_declaration", Lx(i + 1), Absent>>, i + 2)})
               ELSE IF Tk(i + 3) = "identifier"
               THEN simple_closed({R(<<"import_declaration", Lx(i + 1), Lx(i + 3)>>, i + 4)})
               ELSE {}
          [] Tk(i) = "let" ->
               simple_closed({R(<<"variable_declaration", d.t>>, d.e) : d \in simple_declaration_items(i + 1)})
          [] Tk(i) = "const" ->
               simple_closed({R(<<"constant_declaration", d.t>>, d.e) : d \in simple_declaration_items(i + 1)})
          [] Tk(i) = "fn" -> simple_function_declaration(i)
          [] Tk(i) = "if" -> simple_if_statement(i)
          [] Tk(i) = "while" ->
               UNION { {R(<<"while_statement", c.t, b.t>>, b.e) : b \in simple_block(c.e)}
                     : c \in simple_expression(i + 1, Ctx(0, "none", {})) }
          [] Tk(i) = "for" -> simple_for_statement(i)
          [] Tk(i) = "return" -> simple_return_statement(i)
          [] Tk(i) \in {"break", "continue"} -> simple_closed({R(<<Tk(i) \o "_statement">>, i + 1)})
          [] Tk(i) = "defer" -> simple_closed(one("defer_statement"))
          [] Tk(i) = "fork" -> simple_closed(one("fork_statement"))
          [] Tk(i) = "try" -> simple_closed(one("try_statement"))
          [] Tk(i) \in SimpleExprStart -> simple_expression_led_statement(i)
          [] OTHER -> {}

\* repeat(_statement) up to the block's "}"
simple_statements(i) ==
    IF Tk(i) = "}" THEN {R(<<>>, i)}
    ELSE UNION { {R(<<s.t>> \o m.t, m.e) : m \in simple_statements(s.e)} : s \in simple_statement(i) }

\* _statement of the variant that parses
variant_statement(i) == IF lang = "simple" THEN simple_statement(i) ELSE statement(i)

----------------------------------------------------------------------------
(* The parse of one source text. *)

\* white space is not skipped
SkipExtra_Stay ==
    /\ pc = "lex"
    /\ Ch(at) \in Space
    /\ UNCHANGED vars

\* extras: /\s/ is skipped between tokens
SkipExtra ==
    /\ pc = "lex"
    /\ Ch(at) \in Space
    /\ at' = at + 1
    /\ UNCHANGED <<lang, src, toks, versions, errors, tree, accepted, pc>>

\* the lexer yields the longest token at the offset
Scan ==
    /\ pc = "lex"
    /\ at <= Len(src)
    /\ Ch(at) \notin Space
    /\ Longest(at) > 0
    /\ toks' = Append(toks, NextToken(at))
    /\ at' = at + Longest(at)
    /\ UNCHANGED <<lang, src, versions, errors, tree, accepted, pc>>

\* no token rule matches: one diagnostic, and the character is skipped
LexError ==
    /\ pc = "lex"
    /\ at <= Len(src)
    /\ Ch(at) \notin Space
    /\ Longest(at) = 0
    /\ errors' = Append(errors, "lexical")
    /\ at' = at + 1
    /\ UNCHANGED <<lang, src, toks, versions, tree, accepted, pc>>

EndLex ==
    /\ pc = "lex"
    /\ at > Len(src)
    /\ pc' = "parse"
    /\ UNCHANGED <<lang, src, at, toks, versions, errors, tree, accepted>>

\* the versions that still have input to read
Live == {v \in versions : v.pos <= Len(toks)}

\* every way a live version reads its next statement, and the versions
\* that have already read the whole input
Advanced ==
    UNION { {[pos |-> r.e, nodes |-> Append(v.nodes, r.t)] : r \in variant_statement(v.pos)}
          : v \in Live }
    \cup (versions \ Live)

\* source_file: repeat(_statement): each live version reads its next
\* statement, once for each reading the grammar's listed conflicts leave; a
\* version that cannot read one is dropped while another goes on
ParseStatement ==
    /\ pc = "parse"
    /\ Live # {}
    /\ Advanced # {}
    /\ versions' = Advanced
    /\ UNCHANGED <<lang, src, at, toks, errors, tree, accepted, pc>>

RECURSIVE SkipTo(_)
\* the index after the next ";" at or after i, the end of input without one
SkipTo(i) ==
    IF i > Len(toks) THEN i
    ELSE IF Tk(i) = ";" THEN i + 1
    ELSE SkipTo(i + 1)

\* no version can read a statement: one syntax error, the tokens up to the
\* statement terminator are discarded, and parsing resumes after it
Recover ==
    /\ pc = "parse"
    /\ Live # {}
    /\ Advanced = {}
    /\ versions' = {[pos |-> SkipTo(v.pos), nodes |-> Append(v.nodes, <<"ERROR">>)] : v \in Live}
    /\ errors' = Append(errors, "syntax")
    /\ UNCHANGED <<lang, src, at, toks, tree, accepted, pc>>

\* the trees of the versions, one for each reading that survived
Trees == {v.nodes : v \in versions}

\* every version is at the end of input: the parse returns a tree.  The
\* grammar gives no reading of a listed conflict a dynamic precedence, so
\* which surviving reading is returned is not the grammar's to say.
Finish ==
    /\ pc = "parse"
    /\ Live = {}
    /\ tree' \in Trees
    /\ accepted' = IF errors = <<>> THEN accepted \cup {lang} ELSE accepted
    /\ pc' = "done"
    /\ UNCHANGED <<lang, src, at, toks, versions, errors>>

Start == {[pos |-> 1, nodes |-> <<>>]}

----------------------------------------------------------------------------
(* Source texts: integer literals, with and without a radix prefix. *)

RadixPrefixes ==
    {<<>>, <<"0", "x">>, <<"0", "X">>, <<"0", "o">>, <<"0", "O">>, <<"0", "b">>, <<"0", "B">>}

BodyChars == {"1", "9", "A", "_"}

Tails == {<<>>, <<" ">>, <<";">>, <<"$">>}

\* two lines, each a statement alone, with a newline or ";" between them
FirstLines == {<<"f">>, <<"r", "e", "t", "u", "r", "n">>}
SecondLines == {<<"(", "x", ")">>, <<"[", "x", "]">>, <<"-", "x">>, <<"x">>}
Separators == {<<"\n">>, <<";">>}

LineInputs == {a \o sep \o b : a \in FirstLines, sep \in Separators, b \in SecondLines}

InitLex ==
    /\ lang = "superset"
    /\ src \in {p \o b \o t : p \in RadixPrefixes, b \in Strings(BodyChars, MaxBody), t \in Tails}
               \cup LineInputs
    /\ at = 1
    /\ toks = <<>>
    /\ versions = Start
    /\ errors = <<>>
    /\ tree = <<>>
    /\ accepted = {}
    /\ pc = "lex"

NextLex == SkipExtra \/ Scan \/ LexError \/ EndLex \/ ParseStatement \/ Recover \/ Finish

SpecLex == InitLex /\ [][NextLex]_vars
----------------------------------------------------------------------------
(* Token sequences: what the lexer hands the parser. *)

Id(s) == <<"identifier", s>>
Num(s) == <<"integer_literal", s>>
Kw(k) == <<k, k>>

MaxOps == 2

OperandText == <<"2", "3", "4", "5", "6", "7">>

RECURSIVE Chain(_)
\* the operands 2, 3, 4, .. joined by the binary operators ops, in order
Chain(ops) ==
    IF ops = <<>> THEN <<Num(OperandText[1])>>
    ELSE Chain(SubSeq(ops, 1, Len(ops) - 1))
         \o <<Kw(ops[Len(ops)]), Num(OperandText[Len(ops) + 1])>>

PowerChain == <<Num("2"), Kw("**"), Num("3"), Kw("**"), Num("2")>>

\* expressions of up to MaxOps binary operators, and some that break off
\* after an operator
ExprInputs ==
    {Chain(ops) : ops \in Strings(BinaryOps, MaxOps)}
    \cup {PowerChain}
    \cup {Append(Chain(ops), Kw(o)) : ops \in Strings(BinaryOps, 1), o \in {"+", "**"}}

\* Name < X > ( arg ) and Name < X > arg
GenericInputs ==
    {<<Id(n), Kw("<"), x, Kw(">")>> \o t :
        n \in {"Foo", "a"},
        x \in {Id("int"), Id("b"), Kw("i32"), Num("1")},
        t \in {<<Kw("("), Num("1"), Kw(")")>>, <<Kw("("), Id("c"), Kw(")")>>, <<Id("c")>>}}

\* the parenthesized group ( x : [@] Type ) that can follow "fn"
Groups ==
    {<<Kw("("), Id("x"), Kw(":")>> \o m \o ty \o <<Kw(")")>> :
        m \in {<<>>, <<Kw("@")>>},
        ty \in {<<Id("P")>>, <<Kw("&"), Id("Point")>>}}

EmptyBlock == <<Kw("{"), Kw("}")>>

\* what follows the group: a name and a parameter list, a name with type
\* parameters, a body, a return type and a body; the last two are no
\* function at all
GroupTails ==
    {<<Id("area"), Kw("("), Kw(")")>> \o EmptyBlock,
     <<Id("area"), Kw("("), Kw(")"), Kw("->"), Kw("f64")>> \o EmptyBlock,
     <<Id("area"), Kw("("), Id("y"), Kw(":"), Kw("i32"), Kw(")")>> \o EmptyBlock,
     <<Id("area"), Kw("<"), Id("T"), Kw(">"), Kw("("), Kw(")")>> \o EmptyBlock,
     EmptyBlock,
     <<Kw("->"), Kw("f64")>> \o EmptyBlock,
     <<Kw(";")>>,
     <<Id("area")>> \o EmptyBlock}

Identity ==
    <<Kw("fn"), Id("identity"), Kw("("), Id("x"), Kw(":"), Kw("i32"), Kw(")"),
      Kw("->"), Kw("i32"), Kw("{"), Kw("return"), Id("x"), Kw(";"), Kw("}")>>

FnInputs == {<<Kw("fn")>> \o g \o t : g \in Groups, t \in GroupTails} \cup {Identity}

Str(s) == <<"string_literal", s>>

CallF(f) == <<Id(f), Kw("("), Kw(")")>>

\* one text or two of every statement form that may end in ";"
StatementForms ==
    << [kind |-> "import_declaration", body |-> <<Kw("import"), Str("m")>>],
       [kind |-> "import_declaration", body |-> <<Kw("import"), Str("m"), Kw("as"), Id("m")>>],
       [kind |-> "variable_declaration", body |-> <<Kw("let"), Id("x"), Kw("="), Num("1")>>],
       [kind |-> "variable_declaration", body |-> <<Kw("let"), Id("x"), Kw(":"), Kw("i32")>>],
       [kind |-> "constant_declaration", body |-> <<Kw("const"), Id("c"), Kw(":="), Num("1")>>],
       [kind |-> "constraint_declaration", body |-> <<Kw("constraint"), Id("Num"), Kw("="), Kw("i32")>>],
       [kind |-> "type_declaration", body |-> <<Kw("type"), Id("Id"), Kw("i32")>>],
       [kind |-> "return_statement", body |-> <<Kw("return")>>],
       [kind |-> "return_statement", body |-> <<Kw("return"), Id("x")>>],
       [kind |-> "break_statement", body |-> <<Kw("break")>>],
       [kind |-> "continue_statement", body |-> <<Kw("continue")>>],
       [kind |-> "defer_statement", body |-> <<Kw("defer")>> \o CallF("f")],
       [kind |-> "fork_statement", body |-> <<Kw("fork")>> \o CallF("f")],
       [kind |-> "try_statement", body |-> <<Kw("try")>> \o CallF("f")],
       [kind |-> "assignment_statement", body |-> <<Id("x"), Kw("="), Num("1")>>],
       [kind |-> "compound_assignment_statement", body |-> <<Id("x"), Kw("+="), Num("1")>>],
       [kind |-> "increment_statement", body |-> <<Id("x"), Kw("++")>>],
       [kind |-> "increment_statement", body |-> <<Id("x"), Kw("--")>>],
       [kind |-> "expression_statement", body |-> CallF("f")],
       [kind |-> "expression_statement", body |-> <<Id("x")>>] >>

\* each form alone, alone with ";", and twice: without and then with ";"
StmtInputs ==
    UNION { {StatementForms[n].body,
             Append(StatementForms[n].body, Kw(";")),
             StatementForms[n].body \o Append(StatementForms[n].body, Kw(";"))}
          : n \in 1..Len(StatementForms) }

MaxFollow == 2

Malformed == <<Kw("let"), Id("x"), Kw("="), Kw(";")>>

FollowForms ==
    {Append(CallF("foo"), Kw(";")),
     <<Kw("let"), Id("y"), Kw("="), Num("1"), Kw(";")>>,
     <<Kw("return"), Kw(";")>>,
     <<Id("x"), Kw("++")>>}

RECURSIVE Flat(_)
\* the texts of a sequence of statements, one after the other
Flat(fs) == IF fs = <<>> THEN <<>> ELSE fs[1] \o Flat(Tail(fs))

\* valid statements, the malformed "let x = ;", the same valid statements
RecoverInputs == {Flat(fs) \o Malformed \o Flat(fs) : fs \in Strings(FollowForms, MaxFollow)}

Handler == <<Kw("{"), Id("log"), Kw("("), Id("e"), Kw(")"), Kw(";"), Kw("}")>>

CatchFallback == <<Id("x"), Kw("catch"), Num("0")>>
CatchHandlerFallback == <<Id("x"), Kw("catch"), Id("e")>> \o Handler \o <<Num("0")>>
CatchHandler == <<Id("x"), Kw("catch"), Id("e")>> \o Handler

CatchInputs ==
    {CatchFallback, CatchHandlerFallback, CatchHandler,
     Append(CatchFallback, Kw(";")), Append(CatchHandler, Kw(";")),
     <<Kw("(")>> \o CatchHandlerFallback \o <<Kw(")")>>,
     <<Kw("(")>> \o CatchHandler \o <<Kw(")")>>,
     <<Kw("let"), Id("y"), Kw("=")>> \o CatchFallback,
     <<Kw("let"), Id("y"), Kw("=")>> \o CatchHandlerFallback}

MaxFields == 2

TypeParameterNames == <<"T", "U">>
FieldNames == <<"a", "b", "c", "d">>

RECURSIVE TypeParameterTokens(_)
TypeParameterTokens(n) ==
    IF n = 1 THEN <<Id(TypeParameterNames[1])>>
    ELSE TypeParameterTokens(n - 1) \o <<Kw(","), Id(TypeParameterNames[n])>>

\* the type of field j among n type parameters
FieldType(j, n) == TypeParameterNames[((j - 1) % n) + 1]

RECURSIVE FieldTokens(_, _)
\* m fields, each ending with ","
FieldTokens(m, n) ==
    IF m = 0 THEN <<>>
    ELSE FieldTokens(m - 1, n)
         \o <<Kw("."), Id(FieldNames[m]), Kw(":"), Id(FieldType(m, n)), Kw(",")>>

\* type Pair<T, ..> struct { .a: T, .. }
TypeDecl(n, m) ==
    <<Kw("type"), Id("Pair"), Kw("<")>> \o TypeParameterTokens(n)
    \o <<Kw(">"), Kw("struct"), Kw("{")>> \o FieldTokens(m, n) \o <<Kw("}")>>

\* the declarations, and those whose last field lacks its ","
TypeDeclInputs ==
    {TypeDecl(n, m) : n \in 1..Len(TypeParameterNames), m \in 0..MaxFields}
    \cup {SubSeq(TypeDecl(n, m), 1, Len(TypeDecl(n, m)) - 2) \o <<Kw("}")>> :
            n \in 1..Len(TypeParameterNames), m \in 1..MaxFields}

\* a op b is T and a op b as T for every binary operator, and two type
\* tests or casts in a row
IsAsInputs ==
    {<<Id("a"), Kw(op), Id("b"), Kw(k), Id("T")>> : op \in BinaryOps, k \in {"is", "as"}}
    \cup {<<Id("a"), Kw(k), Id("T"), Kw(k2), Id("U")>> : k \in {"is", "as"}, k2 \in {"is", "as"}}

\* the prefix operators as tokens: the unary operators, "&" "mut" and "..."
PrefixTexts == {<<Kw(o)>> : o \in UnaryOps \cup {"..."}} \cup {<<Kw("&"), Kw("mut")>>}

\* op a K b for every prefix operator op and every operator K that continues
\* an expression, and op1 op2 a
PrefixInputs ==
    {p \o <<Id("a"), Kw(k), Id("b")>> : p \in PrefixTexts, k \in InfixTokens}
    \cup {p \o q \o <<Id("a")>> : p \in PrefixTexts, q \in PrefixTexts}

PostfixNames == {"field", "index", "call", "propagate", "generic"}

\* one postfix operator of each kind, as tokens
PostfixText(f) ==
    CASE f = "field" -> <<Kw("."), Id("b")>>
      [] f = "index" -> <<Kw("["), Id("i"), Kw("]")>>
      [] f = "call" -> <<Kw("("), Id("x"), Kw(")")>>
      [] f = "propagate" -> <<Kw("!!")>>
      [] f = "generic" -> <<Kw("<"), Id("T"), Kw(">"), Kw("("), Id("x"), Kw(")")>>

PostfixChain ==
    <<Id("a"), Kw("."), Id("b"), Kw("("), Id("c"), Kw(")"), Kw("["), Id("d"), Kw("]"), Kw("!!")>>

\* a postfix operator after a prefix operator's operand, after a binary
\* operator's right operand, and after another postfix operator
PostfixInputs ==
    {p \o <<Id("a")>> \o PostfixText(f) : p \in PrefixTexts, f \in PostfixNames}
    \cup {<<Id("a"), Kw(k), Id("c")>> \o PostfixText(f) : k \in BinaryOps, f \in PostfixNames}
    \cup {<<Id("a")>> \o PostfixText(f) \o PostfixText(g) :
            f \in PostfixNames \ {"generic"}, g \in PostfixNames \ {"generic"}}
    \cup {PostfixChain}

\* types as tokens, each with its node; closed: the type does not end in a
\* type that a following "!" could continue
TypeForms ==
    << [text |-> <<Id("T")>>, node |-> <<"type_identifier", "T">>, closed |-> TRUE],
       [text |-> <<Kw("i32")>>, node |-> <<"primitive_type", "i32">>, closed |-> TRUE],
       [text |-> <<Id("P"), Kw("<"), Id("T"), Kw(">")>>,
        node |-> <<"applied_type", <<"type_identifier", "P">>,
                   <<"type_argument_list", <<<<"type_identifier", "T">>>>>>>>,
        closed |-> TRUE],
       [text |-> <<Id("m"), Kw("::"), Id("T")>>,
        node |-> <<"scoped_type_identifier", "m", "T">>, closed |-> TRUE],
       [text |-> <<Kw("struct"), Kw("{"), Kw("}")>>,
        node |-> <<"struct_type", <<"struct_body", <<>>>>>>, closed |-> TRUE],
       [text |-> <<Kw("?"), Id("T")>>,
        node |-> <<"optional_type", <<"type_identifier", "T">>>>, closed |-> FALSE],
       [text |-> <<Kw("#"), Id("T")>>,
        node |-> <<"heap_type", <<"type_identifier", "T">>>>, closed |-> FALSE],
       [text |-> <<Kw("&"), Kw("mut"), Id("T")>>,
        node |-> <<"reference_type", "mut", <<"type_identifier", "T">>>>, closed |-> FALSE],
       [text |-> <<Kw("["), Kw("]"), Id("T")>>,
        node |-> <<"dynamic_array_type", <<"type_identifier", "T">>>>, closed |-> FALSE],
       [text |-> <<Kw("map"), Kw("["), Id("K"), Kw("]"), Id("T")>>,
        node |-> <<"map_type", <<"type_identifier", "K">>, <<"type_identifier", "T">>>>,
        closed |-> FALSE] >>

\* A ! B ! C
ResultText(a, b, c) ==
    TypeForms[a].text \o <<Kw("!")>> \o TypeForms[b].text \o <<Kw("!")>> \o TypeForms[c].text

\* let r: A ! B ! C for all the types, and fn r() -> A ! B ! C { } for two
ResultInputs ==
    {<<Kw("let"), Id("r"), Kw(":")>> \o ResultText(a, b, c) :
        a \in DOMAIN TypeForms, b \in DOMAIN TypeForms, c \in DOMAIN TypeForms}
    \cup {<<Kw("fn"), Id("r"), Kw("("), Kw(")"), Kw("->")>> \o ResultText(a, b, c) \o EmptyBlock :
            a \in 1..2, b \in 1..2, c \in 1..2}

MaxNest == 3

TypePrefixes == {"?", "#", "&", "&mut"}

RECURSIVE PrefixTokens(_)
\* the type prefixes w as tokens, "&mut" being "&" "mut"
PrefixTokens(w) ==
    IF w = <<>> THEN <<>>
    ELSE (IF Head(w) = "&mut" THEN <<Kw("&"), Kw("mut")>> ELSE <<Kw(Head(w))>>)
         \o PrefixTokens(Tail(w))

\* let n: followed by up to MaxNest prefixes and a type
NestInputs ==
    {<<Kw("let"), Id("n"), Kw(":")>> \o PrefixTokens(w) \o b :
        w \in Strings(TypePrefixes, MaxNest) \ {<<>>},
        b \in {<<Id("T")>>, <<Kw("i32")>>, <<Id("T"), Kw("!"), Kw("i32")>>}}

MaxAlts == 2

\* one alternative of a union: a primitive type or a name, with "~" or not
UnionAlts == {<<Kw("i32")>>, <<Id("T")>>, <<Kw("~"), Kw("i32")>>, <<Kw("~"), Id("T")>>}

RECURSIVE CommaList(_)
\* the alternatives w joined by ","
CommaList(w) ==
    IF w = <<>> THEN <<>>
    ELSE IF Len(w) = 1 THEN w[1]
    ELSE w[1] \o <<Kw(",")>> \o CommaList(Tail(w))

\* union { alternatives }, with and without a "," after the last one
UnionTexts ==
    {<<Kw("union"), Kw("{")>> \o CommaList(w) \o <<Kw("}")>> : w \in Strings(UnionAlts, MaxAlts)}
    \cup {<<Kw("union"), Kw("{")>> \o CommaList(w) \o <<Kw(","), Kw("}")>> :
            w \in Strings(UnionAlts, MaxAlts) \ {<<>>}}

\* the union in constraint context: after constraint u =, and as the bound
\* of a type parameter of a type and of a function
UnionConstraintInputs ==
    {<<Kw("constraint"), Id("u"), Kw("=")>> \o u : u \in UnionTexts}
    \cup {<<Kw("type"), Id("u"), Kw("<"), Id("T"), Kw(":")>> \o u \o <<Kw(">"), Kw("i32")>> :
            u \in UnionTexts}
    \cup {<<Kw("fn"), Id("u"), Kw("<"), Id("T"), Kw(":")>> \o u \o <<Kw(">"), Kw("("), Kw(")")>>
          \o EmptyBlock : u \in UnionTexts}

\* the union in type position: of a variable, a type declaration, a
\* parameter and a cast
UnionTypeInputs ==
    {<<Kw("let"), Id("u"), Kw(":")>> \o u : u \in UnionTexts}
    \cup {<<Kw("type"), Id("u")>> \o u : u \in UnionTexts}
    \cup {<<Kw("fn"), Id("u"), Kw("("), Id("a"), Kw(":")>> \o u \o <<Kw(")")>> \o EmptyBlock :
            u \in UnionTexts}
    \cup {<<Id("u"), Kw("as")>> \o u : u \in UnionTexts}

\* keywords of every sort: statement, operator, type and literal words
NameWords == {"let", "fn", "if", "in", "as", "is", "match", "union", "map", "i32", "true", "none"}

\* a keyword where a variable, a function, a field and a type are named
KeywordNameInputs ==
    {<<Kw("let"), Kw(k), Kw("="), Num("1")>> : k \in NameWords}
    \cup {<<Kw("fn"), Kw(k), Kw("("), Kw(")")>> \o EmptyBlock : k \in NameWords}
    \cup {<<Id("x"), Kw("."), Kw(k)>> : k \in NameWords}
    \cup {<<Kw("type"), Kw(k), Kw("i32")>> : k \in NameWords}

MaxArms == 2

\* the arms of a match: the pattern "_" or a name, the body an expression,
\* a block or empty braces
ArmTexts ==
    {<<p, Kw("=>")>> \o b : p \in {Kw("_"), Id("y")},
                            b \in {<<Id("z")>>, <<Kw("{"), Kw("return"), Kw("}")>>,
                                   <<Kw("{"), Kw("}")>>}}

\* match m { arms }, with and without a "," after the last arm
MatchTexts ==
    {<<Kw("match"), Id("m"), Kw("{")>> \o CommaList(w) \o <<Kw("}")>> :
        w \in Strings(ArmTexts, MaxArms)}
    \cup {<<Kw("match"), Id("m"), Kw("{")>> \o CommaList(w) \o <<Kw(","), Kw("}")>> :
            w \in Strings(ArmTexts, MaxArms) \ {<<>>}}

\* the match as a statement and as the value of a variable
MatchInputs == MatchTexts \cup {<<Kw("let"), Id("v"), Kw("=")>> \o t : t \in MatchTexts}

Inputs ==
    ExprInputs \cup GenericInputs \cup FnInputs \cup StmtInputs \cup RecoverInputs
    \cup CatchInputs \cup TypeDeclInputs \cup IsAsInputs \cup PrefixInputs
    \cup PostfixInputs \cup ResultInputs \cup NestInputs \cup UnionConstraintInputs
    \cup UnionTypeInputs \cup KeywordNameInputs \cup MatchInputs

Init ==
    /\ lang = "superset"
    /\ src = <<>>
    /\ at = 1
    /\ toks \in Inputs
    /\ versions = Start
    /\ errors = <<>>
    /\ tree = <<>>
    /\ accepted = {}
    /\ pc = "parse"

Next == ParseStatement \/ Recover \/ Finish

Spec == Init /\ [][Next]_vars

----------------------------------------------------------------------------
(* One token sequence under both variants: the simpler grammar parses it,  *)
(* then the superset grammar parses the same tokens.  The sequences are    *)
(* written in tokens the two lexers agree on.                              *)

Receiver(ty) ==
    <<Kw("fn"), Kw("("), Id("p"), Kw(":")>> \o ty \o <<Kw(")"), Id("m"), Kw("("), Kw(")")>>
    \o EmptyBlock

Typed(ty) == <<Kw("let"), Id("x"), Kw(":")>> \o ty \o <<Kw("="), Num("1"), Kw(";")>>

\* the types: primitive, array, map, reference, optional written after the
\* base and before it, result
TypeTexts ==
    {<<Kw("i32")>>, <<Kw("["), Kw("]"), Kw("i32")>>, <<Kw("["), Num("4"), Kw("]"), Kw("i32")>>,
     <<Kw("map"), Kw("["), Kw("str"), Kw("]"), Kw("i32")>>,
     <<Kw("&"), Kw("i32")>>, <<Kw("&"), Kw("mut"), Kw("i32")>>,
     <<Kw("i32"), Kw("?")>>, <<Kw("?"), Kw("i32")>>, <<Kw("str"), Kw("!"), Kw("i32")>>}

\* the compound statements, and simple statements over unary and binary
\* operators
CompoundTexts ==
    {<<Kw("for"), Kw("let"), Id("i"), Kw("in"), Num("0"), Kw(".."), Id("n")>> \o EmptyBlock,
     <<Kw("for"), Kw("let"), Id("i"), Kw("in"), Id("xs")>> \o EmptyBlock,
     <<Kw("for"), Id("i"), Kw("in"), Num("0"), Kw(".."), Id("n")>> \o EmptyBlock,
     <<Kw("for"), Id("i"), Kw("in"), Id("xs")>> \o EmptyBlock,
     <<Kw("if"), Id("x")>> \o EmptyBlock,
     <<Kw("if"), Id("x")>> \o EmptyBlock \o <<Kw("else")>> \o EmptyBlock,
     <<Kw("if"), Id("x")>> \o EmptyBlock \o <<Kw("else"), Kw("if"), Id("y")>> \o EmptyBlock,
     <<Kw("while"), Id("x"), Kw("{")>> \o CallF("f") \o <<Kw(";"), Kw("}")>>,
     <<Kw("while"), Id("x"), Kw("{")>> \o CallF("f") \o <<Kw("}")>>,
     <<Kw("fn"), Id("m"), Kw("("), Id("a"), Kw(":"), Kw("i32"), Kw(")"), Kw("->"), Kw("i32"),
       Kw("{"), Kw("return"), Id("a"), Kw(";"), Kw("}")>>,
     <<Id("x"), Kw("="), Kw("&"), Id("y"), Kw(";")>>,
     <<Id("x"), Kw("="), Kw("&"), Kw("mut"), Id("y"), Kw(";")>>,
     <<Id("x"), Kw("="), Kw("!"), Id("y"), Kw("||"), Kw("-"), Id("z"), Kw(";")>>,
     <<Id("x"), Kw("="), Id("a"), Kw("."), Id("b"), Kw("["), Num("0"), Kw("]"), Kw("as"),
       Kw("i32"), Kw(";")>>,
     <<Id("x"), Kw("="), Id("y"), Kw("catch"), Num("0"), Kw(";")>>,
     <<Id("x"), Kw("="), Id("y"), Kw("catch"), Id("e")>> \o EmptyBlock \o <<Num("0"), Kw(";")>>,
     <<Id("x"), Kw("="), Id("y"), Kw("catch"), Id("e")>> \o EmptyBlock \o <<Kw(";")>>}

SubsetInputs ==
    {StatementForms[k].body \o <<Kw(";")>> : k \in DOMAIN StatementForms}
    \cup {StatementForms[k].body : k \in DOMAIN StatementForms}
    \cup {Typed(t) : t \in TypeTexts}
    \cup {Receiver(t) : t \in TypeTexts}
    \cup {Receiver(<<Kw("&"), Kw("i32"), Kw("?")>>), Receiver(<<Kw("&"), Kw("&"), Kw("i32"), Kw("?")>>)}
    \cup CompoundTexts

InitSubset ==
    /\ lang = "simple"
    /\ src = <<>>
    /\ at = 1
    /\ toks \in SubsetInputs
    /\ versions = Start
    /\ errors = <<>>
    /\ tree = <<>>
    /\ accepted = {}
    /\ pc = "parse"

\* the tokens the simpler grammar has parsed go to the superset grammar
Reparse ==
    /\ pc = "done"
    /\ lang = "simple"
    /\ lang' = "superset"
    /\ versions' = Start
    /\ errors' = <<>>
    /\ tree' = <<>>
    /\ pc' = "parse"
    /\ UNCHANGED <<src, at, toks, accepted>>

NextSubset == ParseStatement \/ Recover \/ Finish \/ Reparse

SpecSubset == InitSubset /\ [][NextSubset]_vars

----------------------------------------------------------------------------
(* Binary operators: levels and grouping. *)

\* the table of levels, loosest (1) to tightest (12)
C1_Level(op) ==
    CASE op = "|>" -> 1
      [] op = "??" -> 2
      [] op = "||" -> 3
      [] op = "&&" -> 4
      [] op = "|" -> 5
      [] op = "^" -> 6
      [] op = "&" -> 7
      [] op \in {"==", "!="} -> 8
      [] op \in {"<", ">", "<=", ">="} -> 9
      [] op \in {"+", "-"} -> 10
      [] op \in {"*", "/", "%"} -> 11
      [] op = "**" -> 12

C1_IsBinary(t) == t[1] = "binary_expression"

RECURSIVE C1_Grouped(_)
\* under every binary node, a binary left operand is of a tighter level, or
\* of the same level unless the operator is "**"; a binary right operand is
\* of a tighter level, or of the same level when the operator is "**"
C1_Grouped(t) ==
    IF ~C1_IsBinary(t) THEN TRUE
    ELSE /\ C1_IsBinary(t[3]) =>
              \/ C1_Level(t[3][2]) > C1_Level(t[2])
              \/ C1_Level(t[3][2]) = C1_Level(t[2]) /\ t[2] # "**"
         /\ C1_IsBinary(t[4]) =>
              \/ C1_Level(t[4][2]) > C1_Level(t[2])
              \/ C1_Level(t[4][2]) = C1_Level(t[2]) /\ t[2] = "**"
         /\ C1_Grouped(t[3])
         /\ C1_Grouped(t[4])

RECURSIVE C1_Yield(_)
\* the tokens of an expression tree of binary nodes, left to right
C1_Yield(t) ==
    IF C1_IsBinary(t) THEN C1_Yield(t[3]) \o <<Kw(t[2])>> \o C1_Yield(t[4])
    ELSE <<t>>

\* the tokens are operands joined by binary operators
C1_IsChain ==
    /\ Len(toks) % 2 = 1
    /\ \A i \in 1..Len(toks) :
          IF i % 2 = 1 THEN Tk(i) = "integer_literal" ELSE Tk(i) \in BinaryOps

C1_Sum == <<"binary_expression", "+", Num("2"), <<"binary_expression", "*", Num("3"), Num("4")>>>>
C1_Power == <<"binary_expression", "**", Num("2"), <<"binary_expression", "**", Num("3"), Num("2")>>>>

\* C1: an expression of binary operators parses without error to one
\* expression statement whose tree keeps the tokens in order, puts the
\* operator of the tighter level inside, groups one level to the left and
\* "**" to the right; 2 + 3 * 4 is 2 + (3 * 4), 2 ** 3 ** 2 is 2 ** (3 ** 2).
C1_Precedence ==
    (pc = "done" /\ C1_IsChain) =>
        /\ errors = <<>>
        /\ Len(tree) = 1
        /\ tree[1][1] = "expression_statement"
        /\ C1_Yield(tree[1][2]) = toks
        /\ C1_Grouped(tree[1][2])
        /\ toks = Chain(<<"+", "*">>) => tree[1][2] = C1_Sum
        /\ toks = PowerChain => tree[1][2] = C1_Power

C1_Witness ==
    /\ pc = "done"
    /\ toks = PowerChain
    /\ tree = <<<<"expression_statement", C1_Power>>>>

----------------------------------------------------------------------------
(* Generic calls and comparisons. *)

C2_FooInt == <<Id("Foo"), Kw("<"), Id("int"), Kw(">"), Kw("("), Num("1"), Kw(")")>>
C2_Abc == <<Id("a"), Kw("<"), Id("b"), Kw(">"), Kw("("), Id("c"), Kw(")")>>

C2_GenericCall(name, ty, arg) ==
    <<"expression_statement",
      <<"generic_call_expression", Id(name),
        <<"type_argument_list", <<<<"type_identifier", ty>>>>>>,
        <<"argument_list", <<arg>>>>>>>>

C2_Chained(a, b, c) ==
    <<"expression_statement",
      <<"binary_expression", ">",
        <<"binary_expression", "<", a, b>>,
        <<"parenthesized_expression", c>>>>>>

\* C2: Foo<int>(1) parses as a generic call with a type argument list and an
\* argument list, and a < b > (c) parses as the two chained comparisons
\* (a < b) > (c), never as a generic call.
C2_GenericOrComparison ==
    pc = "done" =>
        /\ toks = C2_FooInt => tree = <<C2_GenericCall("Foo", "int", Num("1"))>>
        /\ toks = C2_Abc => tree = <<C2_Chained(Id("a"), Id("b"), Id("c"))>>

----------------------------------------------------------------------------
(* Method receivers. *)

\* the index after the first ")" of the tokens: the end of the group
C3_AfterGroup == 1 + CHOOSE i \in 1..Len(toks) : Tk(i) = ")" /\ \A j \in 1..(i - 1) : Tk(j) # ")"

\* the tokens of the group's type, and its move marker
C3_Move == IF Tk(5) = "@" THEN "@" ELSE ""
C3_TypeAt == IF Tk(5) = "@" THEN 6 ELSE 5
C3_Type ==
    IF Tk(C3_TypeAt) = "&"
    THEN <<"reference_type", "", <<"type_identifier", Lx(C3_TypeAt + 1)>>>>
    ELSE <<"type_identifier", Lx(C3_TypeAt)>>

C3_HasReceiver ==
    /\ tree[1][1] = "function_declaration"
    /\ tree[1][2] = <<"method_receiver", Lx(3), C3_Move, C3_Type>>

\* the group is the parameter list of a function without a receiver
C3_IsParameterList ==
    /\ tree[1][1] = "expression_statement"
    /\ tree[1][2][1] = "function_literal"
    /\ tree[1][2][2] = <<"parameter_list", <<<<"parameter", Lx(3), "", C3_Move, C3_Type, Absent>>>>>>

C3_GroupFirst == Tk(1) = "fn" /\ Tk(2) = "("

\* C3 as stated: the group right after "fn" is a method receiver exactly
\* when an identifier and then "(" follow it; otherwise it is the parameter
\* list of a function without a receiver.
C3_ReceiverIffNameParen ==
    (pc = "done" /\ C3_GroupFirst /\ errors = <<>>) =>
        IF Tk(C3_AfterGroup) = "identifier" /\ Tk(C3_AfterGroup + 1) = "("
        THEN C3_HasReceiver
        ELSE C3_IsParameterList

\* C3, amended: the group right after "fn" is a method receiver exactly
\* when the function's name follows it, itself followed by "(" or by a type
\* parameter list; followed by a body or a return type, the group is the
\* parameter list of a function without a receiver.  Each such text parses
\* without error; fn (x: &Point) area() -> f64 { } has the receiver
\* x: &Point, fn identity(x: i32) -> i32 { return x; } has none and one
\* parameter.
C3_ReceiverIffName ==
    pc = "done" =>
        /\ (C3_GroupFirst /\ Tk(C3_AfterGroup) = "identifier" /\ Tk(C3_AfterGroup + 1) \in {"(", "<"}) =>
              errors = <<>> /\ Len(tree) = 1 /\ C3_HasReceiver
        /\ (C3_GroupFirst /\ Tk(C3_AfterGroup) \in {"{", "->"}) =>
              errors = <<>> /\ Len(tree) = 1 /\ C3_IsParameterList
        /\ (C3_GroupFirst /\ errors = <<>>) =>
              (C3_HasReceiver <=> Tk(C3_AfterGroup) = "identifier")
        /\ toks = Identity =>
              /\ errors = <<>>
              /\ Len(tree) = 1
              /\ tree[1][1] = "function_declaration"
              /\ tree[1][2] = Absent
              /\ tree[1][5] = <<"parameter_list", <<<<"parameter", "x", "", "", <<"primitive_type", "i32">>, Absent>>>>>>

C3_PointArea ==
    <<Kw("fn"), Kw("("), Id("x"), Kw(":"), Kw("&"), Id("Point"), Kw(")"),
      Id("area"), Kw("("), Kw(")"), Kw("->"), Kw("f64"), Kw("{"), Kw("}")>>

C3_Witness ==
    /\ pc = "done"
    /\ toks = C3_PointArea
    /\ tree[1][2] = <<"method_receiver", "x", "", <<"reference_type", "", <<"type_identifier", "Point">>>>>>
    /\ tree[1][3] = "area"

----------------------------------------------------------------------------
(* Statement terminators. *)

\* C4: every statement form that may end in ";" parses without error to
\* its statement node with the ";" and without it, and the node is the same
\* in both cases.
C4_OptionalSemicolon ==
    pc = "done" =>
        \A n \in 1..Len(StatementForms) :
            LET f == StatementForms[n]
            IN  /\ toks \in {f.body, Append(f.body, Kw(";"))} =>
                      errors = <<>> /\ Len(tree) = 1 /\ tree[1][1] = f.kind
                /\ toks = f.body \o Append(f.body, Kw(";")) =>
                      errors = <<>> /\ Len(tree) = 2 /\ tree[1][1] = f.kind /\ tree[1] = tree[2]

C4_Witness ==
    /\ pc = "done"
    /\ toks = <<Kw("return"), Id("x"), Kw("return"), Id("x"), Kw(";")>>
    /\ tree = <<<<"return_statement", Id("x"), "">>, <<"return_statement", Id("x"), "">>>>

C5_First(a) ==
    IF a = <<"f">> THEN <<"expression_statement", Id("f")>>
    ELSE <<"return_statement", Absent, "">>

C5_Second(b) ==
    <<"expression_statement",
      CASE b = <<"(", "x", ")">> -> <<"parenthesized_expression", Id("x")>>
        [] b = <<"[", "x", "]">> -> <<"array_literal", <<Id("x")>>>>
        [] b = <<"-", "x">> -> <<"unary_expression", "-", Id("x")>>
        [] b = <<"x">> -> Id("x")>>

\* C5: two statements, each valid alone, parse to the same two statement
\* nodes whether a newline or ";" stands between them: the second line is
\* never taken into the first statement.
C5_NewlineTerminates ==
    pc = "done" =>
        \A a \in FirstLines, b \in SecondLines, sep \in Separators :
            src = a \o sep \o b => errors = <<>> /\ tree = <<C5_First(a), C5_Second(b)>>

----------------------------------------------------------------------------
(* Recovery from a malformed statement. *)

C6_HasMalformed == \E i \in 1..Len(toks) : Tk(i) = "=" /\ Tk(i + 1) = ";"

\* C6: with "let x = ;" between two copies of a sequence of valid
\* statements, the parse reports exactly one syntax error, the malformed
\* statement is the one error node, and every statement after it gets the
\* node its copy before it got.
C6_OneSyntaxError ==
    (pc = "done" /\ C6_HasMalformed) =>
        \A fs \in Strings(FollowForms, MaxFollow) :
            toks = Flat(fs) \o Malformed \o Flat(fs) =>
                /\ errors = <<"syntax">>
                /\ Len(tree) = 2 * Len(fs) + 1
                /\ tree[Len(fs) + 1] = <<"ERROR">>
                /\ \A j \in 1..Len(fs) :
                      tree[j] # <<"ERROR">> /\ tree[Len(fs) + 1 + j] = tree[j]

C6_Witness ==
    /\ pc = "done"
    /\ toks = Append(CallF("foo"), Kw(";")) \o Malformed \o Append(CallF("foo"), Kw(";"))
    /\ errors = <<"syntax">>
    /\ tree[2] = <<"ERROR">>
    /\ tree[3] = <<"expression_statement", <<"call_expression", Id("foo"), <<"argument_list", <<>>>>>>>>

----------------------------------------------------------------------------
(* Catch expressions. *)

C7_HandlerBlock ==
    <<"block", <<<<"expression_statement",
                   <<"call_expression", Id("log"), <<"argument_list", <<Id("e")>>>>>>>>>>>>

\* C7: a catch expression is expr catch fallback or
\* expr catch errName { handler } fallback; both carry a fallback, the first
\* carries no error name and no handler block.
C7_TwoFormsWithFallback ==
    pc = "done" =>
        /\ toks = CatchFallback =>
              tree = <<<<"expression_statement",
                         <<"catch_expression", Id("x"), Absent, Absent, Num("0")>>>>>>
        /\ toks = CatchHandlerFallback =>
              tree = <<<<"expression_statement",
                         <<"catch_expression", Id("x"), Id("e"), C7_HandlerBlock, Num("0")>>>>>>
        /\ (toks \in CatchInputs /\ errors = <<>> /\ tree[1][1] = "expression_statement"
            /\ tree[1][2][1] = "catch_expression") =>
              tree[1][2][5] # Absent

----------------------------------------------------------------------------
(* Integer literals. *)

C8_Decimal(s) ==
    /\ Len(s) >= 1
    /\ s[1] \in Digit
    /\ \A i \in 1..Len(s) : s[i] \in Digit \cup {"_"}

C8_Radix(s, marks, digits) ==
    /\ Len(s) >= 3
    /\ s[1] = "0"
    /\ s[2] \in marks
    /\ s[3] \in digits
    /\ \A i \in 3..Len(s) : s[i] \in digits \cup {"_"}

C8_Valid(s) ==
    \/ C8_Decimal(s)
    \/ C8_Radix(s, {"x", "X"}, HexDigit)
    \/ C8_Radix(s, {"o", "O"}, OctDigit)
    \/ C8_Radix(s, {"b", "B"}, BinDigit)

C8_PrefixAlone(s) == Len(s) = 2 /\ s[1] = "0" /\ s[2] \in {"x", "X", "o", "O", "b", "B"}

\* C8: a valid decimal, hex, octal or binary integer literal lexes as one
\* integer token spanning the whole literal, and a radix prefix without a
\* digit is a lexical error, not an integer followed by something else.
C8_IntegerLiterals ==
    pc # "lex" =>
        /\ C8_Valid(src) =>
              /\ Len(toks) = 1
              /\ toks[1][1] = "integer_literal"
              /\ toks[1][2] = Text(1, Len(src))
              /\ errors = <<>>
        /\ C8_PrefixAlone(src) =>
              /\ "lexical" \in {errors[k] : k \in 1..Len(errors)}
              /\ ~(Len(toks) >= 2 /\ toks[1][1] = "integer_literal")

----------------------------------------------------------------------------
(* Generic struct declarations. *)

C9_TypeParameters(n) ==
    <<"type_parameter_list",
      [k \in 1..n |-> <<"type_parameter", TypeParameterNames[k], Absent>>]>>

C9_Fields(n, m) ==
    [j \in 1..m |-> <<"field_declaration", <<"field_identifier", FieldNames[j]>>,
                      <<"type_identifier", FieldType(j, n)>>>>]

\* C9: type Pair<T, ..> struct { .a: T, .. } with "," after every field parses
\* without error to one type_declaration with the type parameter list, a
\* struct type, and one field declaration for each field, in source order.
C9_GenericStruct ==
    pc = "done" =>
        \A n \in 1..Len(TypeParameterNames), m \in 0..MaxFields :
            toks = TypeDecl(n, m) =>
                /\ errors = <<>>
                /\ tree = <<<<"type_declaration", "Pair", C9_TypeParameters(n),
                              <<"struct_type", <<"struct_body", C9_Fields(n, m)>>>>>>>>

C9_Witness ==
    /\ pc = "done"
    /\ toks = TypeDecl(1, 2)
    /\ tree[1][4] =
          <<"struct_type",
            <<"struct_body",
              <<<<"field_declaration", <<"field_identifier", "a">>, <<"type_identifier", "T">>>>,
                <<"field_declaration", <<"field_identifier", "b">>, <<"type_identifier", "T">>>>>>>>>>

----------------------------------------------------------------------------
(* The simpler variant against the superset variant. *)

\* C10: every token sequence the simpler grammar parses without error, the
\* superset grammar parses without error too: once both have parsed it, the
\* superset has accepted it whenever the simpler one has.
C10_SimplerIsSubset ==
    (pc = "done" /\ lang = "superset" /\ "simple" \in accepted) => "superset" \in accepted

----------------------------------------------------------------------------
(* Type tests and casts among the binary operators. *)

C11_Node(k) == IF k = "is" THEN "is_expression" ELSE "cast_expression"

C11_Type(i) == <<"type_identifier", Lx(i)>>

\* a op b k T, and a k T k2 U
C11_AfterBinary ==
    /\ Len(toks) = 5
    /\ Tk(1) = "identifier" /\ Tk(3) = "identifier" /\ Tk(5) = "identifier"
    /\ Tk(2) \in BinaryOps
    /\ Tk(4) \in {"is", "as"}

C11_Twice ==
    /\ Len(toks) = 5
    /\ Tk(1) = "identifier" /\ Tk(3) = "identifier" /\ Tk(5) = "identifier"
    /\ Tk(2) \in {"is", "as"}
    /\ Tk(4) \in {"is", "as"}

\* C11: `is` and `as` take a type on the right and bind looser than `||` and
\* every tighter operator, tighter than `|>`, to the left: a op b as T is
\* (a op b) as T for `||` and every tighter op, a |> b as T is a |> (b as T),
\* and a as T is U is (a as T) is U.
C11_IsAsLevel ==
    pc = "done" =>
        /\ (C11_AfterBinary /\ C1_Level(Tk(2)) >= C1_Level("||")) =>
              /\ errors = <<>>
              /\ tree = <<<<"expression_statement",
                            <<C11_Node(Tk(4)),
                              <<"binary_expression", Tk(2), Id(Lx(1)), Id(Lx(3))>>,
                              C11_Type(5)>>>>>>
        /\ (C11_AfterBinary /\ Tk(2) = "|>") =>
              /\ errors = <<>>
              /\ tree = <<<<"expression_statement",
                            <<"binary_expression", "|>", Id(Lx(1)),
                              <<C11_Node(Tk(4)), Id(Lx(3)), C11_Type(5)>>>>>>>>
        /\ C11_Twice =>
              /\ errors = <<>>
              /\ tree = <<<<"expression_statement",
                            <<C11_Node(Tk(4)), <<C11_Node(Tk(2)), Id(Lx(1)), C11_Type(3)>>,
                              C11_Type(5)>>>>>>

C11_Witness ==
    /\ pc = "done"
    /\ toks = <<Id("a"), Kw("|>"), Id("b"), Kw("as"), Id("T")>>
    /\ tree = <<<<"expression_statement",
                  <<"binary_expression", "|>", Id("a"),
                    <<"cast_expression", Id("b"), <<"type_identifier", "T">>>>>>>>>>

----------------------------------------------------------------------------
(* Prefix operators against the operators that continue an expression. *)

\* the index after the prefix operator at i
C12_After(i) == IF Tk(i) = "&" /\ Tk(i + 1) = "mut" THEN i + 2 ELSE i + 1

\* the node of the prefix operator at i around the operand t
C12_Prefixed(i, t) ==
    IF Tk(i) = "..." THEN <<"spread_expression", t>>
    ELSE <<"unary_expression", IF C12_After(i) = i + 2 THEN "&mut" ELSE Tk(i), t>>

\* the node of the operator k between l and the name at index j
C12_Joined(k, l, j) ==
    CASE k \in BinaryOps -> <<"binary_expression", k, l, Id(Lx(j))>>
      [] k = ".." -> <<"range_expression", l, Id(Lx(j))>>
      [] k = "is" -> <<"is_expression", l, <<"type_identifier", Lx(j)>>>>
      [] k = "as" -> <<"cast_expression", l, <<"type_identifier", Lx(j)>>>>
      [] k = "catch" -> <<"catch_expression", l, Absent, Absent, Id(Lx(j))>>

C12_IsPrefix(i) == Tk(i) \in UnaryOps \cup {"..."}

\* op a K b
C12_BeforeInfix ==
    /\ C12_IsPrefix(1)
    /\ Len(toks) = C12_After(1) + 2
    /\ Tk(C12_After(1)) = "identifier"
    /\ Tk(C12_After(1) + 1) \in InfixTokens
    /\ Tk(C12_After(1) + 2) = "identifier"

\* op1 op2 a
C12_Nested ==
    /\ C12_IsPrefix(1)
    /\ C12_IsPrefix(C12_After(1))
    /\ Len(toks) = C12_After(C12_After(1))
    /\ Tk(Len(toks)) = "identifier"

\* C12: a prefix operator (! - & &mut @ # ~ and the spread ...) binds tighter
\* than every binary operator, is/as, .. and catch: op a K b is (op a) K b;
\* prefix operators nest to the right: op1 op2 a is op1 (op2 a).
C12_PrefixTightest ==
    pc = "done" =>
        /\ C12_BeforeInfix =>
              /\ errors = <<>>
              /\ tree = <<<<"expression_statement",
                            C12_Joined(Tk(C12_After(1) + 1),
                                       C12_Prefixed(1, Id(Lx(C12_After(1)))),
                                       Len(toks))>>>>
        /\ C12_Nested =>
              /\ errors = <<>>
              /\ tree = <<<<"expression_statement",
                            C12_Prefixed(1, C12_Prefixed(C12_After(1), Id(Lx(Len(toks)))))>>>>

C12_Witness ==
    /\ pc = "done"
    /\ toks = <<Kw("-"), Id("a"), Kw("**"), Id("b")>>
    /\ tree = <<<<"expression_statement",
                  <<"binary_expression", "**", <<"unary_expression", "-", Id("a")>>, Id("b")>>>>>>

----------------------------------------------------------------------------
(* Postfix operators against prefix and binary operators. *)

\* the node of the postfix operator PostfixText(f) applied to l
C13_Apply(f, l) ==
    CASE f = "field" -> <<"field_expression", l, <<"field_identifier", "b">>>>
      [] f = "index" -> <<"index_expression", l, Id("i")>>
      [] f = "call" -> <<"call_expression", l, <<"argument_list", <<Id("x")>>>>>>
      [] f = "propagate" -> <<"error_propagate_expression", l>>
      [] f = "generic" ->
           <<"generic_call_expression", l,
             <<"type_argument_list", <<<<"type_identifier", "T">>>>>>,
             <<"argument_list", <<Id("x")>>>>>>

C13_Chain ==
    <<"error_propagate_expression",
      <<"index_expression",
        <<"call_expression",
          <<"field_expression", Id("a"), <<"field_identifier", "b">>>>,
          <<"argument_list", <<Id("c")>>>>>>,
        Id("d")>>>>

\* C13: a postfix operator (field access, indexing, call, generic call, !!)
\* binds tighter than every prefix and binary operator: op a.b, op a[i],
\* op a(x), op a<T>(x) and op a!! have the postfix node as the operand of op,
\* a K c.b has it as the right operand of K; postfix operators chain left to
\* right, a.b(c)[d]!! is (((a.b)(c))[d])!!.
C13_PostfixTightest ==
    pc = "done" =>
        /\ \A p \in PrefixTexts, f \in PostfixNames :
              toks = p \o <<Id("a")>> \o PostfixText(f) =>
                  tree = <<<<"expression_statement", C12_Prefixed(1, C13_Apply(f, Id("a")))>>>>
        /\ \A k \in BinaryOps, f \in PostfixNames :
              toks = <<Id("a"), Kw(k), Id("c")>> \o PostfixText(f) =>
                  tree = <<<<"expression_statement",
                             <<"binary_expression", k, Id("a"), C13_Apply(f, Id("c"))>>>>>>
        /\ \A f \in PostfixNames \ {"generic"}, g \in PostfixNames \ {"generic"} :
              toks = <<Id("a")>> \o PostfixText(f) \o PostfixText(g) =>
                  tree = <<<<"expression_statement", C13_Apply(g, C13_Apply(f, Id("a")))>>>>
        /\ toks = PostfixChain => tree = <<<<"expression_statement", C13_Chain>>>>

----------------------------------------------------------------------------
(* Result types. *)

\* let r: A ! B ! C, or fn r() -> A ! B ! C { }
C14_InLet == Tk(1) = "let" /\ Tk(2) = "identifier" /\ Lx(2) = "r" /\ Tk(3) = ":"
C14_InFn == Tk(1) = "fn" /\ Tk(2) = "identifier" /\ Lx(2) = "r" /\ Tk(5) = "->"

\* the first and the last token of the type
C14_First == IF C14_InLet THEN 4 ELSE 6
C14_Last == IF C14_InLet THEN Len(toks) ELSE Len(toks) - 2

\* where the two "!" stand
C14_Bangs == {i \in C14_First..C14_Last : Tk(i) = "!"}
C14_Bang1 == CHOOSE i \in C14_Bangs : \A j \in C14_Bangs : i <= j
C14_Bang2 == CHOOSE i \in C14_Bangs : \A j \in C14_Bangs : j <= i

\* the form written from token i to token j
C14_Form(i, j) == CHOOSE k \in DOMAIN TypeForms : TypeForms[k].text = SubSeq(toks, i, j)
C14_A == TypeForms[C14_Form(C14_First, C14_Bang1 - 1)]
C14_B == TypeForms[C14_Form(C14_Bang1 + 1, C14_Bang2 - 1)]
C14_C == TypeForms[C14_Form(C14_Bang2 + 1, C14_Last)]

\* the type node of the parsed declaration
C14_Parsed == IF C14_InLet THEN tree[1][2][1][3] ELSE tree[1][6]

C14_Nested ==
    <<"result_type", C14_A.node, <<"result_type", C14_B.node, C14_C.node>>>>

\* C14: for all types A, B, C, A ! B ! C parses as a result_type whose
\* error_type is A and whose success_type is the result_type B ! C.
C14_RightAssociative ==
    (pc = "done" /\ (C14_InLet \/ C14_InFn)) =>
        /\ errors = <<>>
        /\ C14_Parsed = C14_Nested

\* C14, amended: the same for all types A and B that are a type name (bare,
\* scoped or applied to type arguments), a primitive type or a struct type,
\* and every type C.
C14_RightAssociativeClosed ==
    (pc = "done" /\ (C14_InLet \/ C14_InFn) /\ C14_A.closed /\ C14_B.closed) =>
        /\ errors = <<>>
        /\ Len(tree) = 1
        /\ C14_Parsed = C14_Nested

C14_Witness ==
    /\ pc = "done"
    /\ toks = <<Kw("fn"), Id("r"), Kw("("), Kw(")"), Kw("->")>> \o ResultText(1, 2, 1) \o EmptyBlock
    /\ tree[1][6] =
          <<"result_type", <<"type_identifier", "T">>,
            <<"result_type", <<"primitive_type", "i32">>, <<"type_identifier", "T">>>>>>

----------------------------------------------------------------------------
(* Optional, heap and reference types. *)

\* let n: prefix ...
C15_Prefixed ==
    /\ Tk(1) = "let" /\ Tk(2) = "identifier" /\ Lx(2) = "n" /\ Tk(3) = ":"
    /\ Tk(4) \in {"?", "#", "&"}

C15_Name(i) ==
    IF Tk(i) = "identifier" THEN <<"type_identifier", Lx(i)>> ELSE <<"primitive_type", Tk(i)>>

RECURSIVE C15_Nest(_)
\* the type from token i on, read prefix by prefix: each prefix node has
\* all that follows as its base
C15_Nest(i) ==
    CASE Tk(i) = "?" -> <<"optional_type", C15_Nest(i + 1)>>
      [] Tk(i) = "#" -> <<"heap_type", C15_Nest(i + 1)>>
      [] Tk(i) = "&" /\ Tk(i + 1) = "mut" -> <<"reference_type", "mut", C15_Nest(i + 2)>>
      [] Tk(i) = "&" /\ Tk(i + 1) # "mut" -> <<"reference_type", "", C15_Nest(i + 1)>>
      [] OTHER ->
           IF Tk(i + 1) = "!"
           THEN <<"result_type", C15_Name(i), C15_Name(i + 2)>>
           ELSE C15_Name(i)

\* C15: every sequence of the type prefixes ?, #, & and &mut followed by a
\* type parses, without error, as a type in which each prefix node has the
\* rest as its base.
C15_PrefixNesting ==
    (pc = "done" /\ C15_Prefixed) =>
        /\ errors = <<>>
        /\ tree = <<<<"variable_declaration",
                      <<<<"declaration_item", "n", C15_Nest(4), Absent>>>>>>>>

C15_Witness ==
    /\ pc = "done"
    /\ toks = <<Kw("let"), Id("n"), Kw(":"), Kw("&"), Kw("mut"), Kw("?"), Kw("#"), Id("T")>>
    /\ tree[1][2][1][3] =
          <<"reference_type", "mut",
            <<"optional_type", <<"heap_type", <<"type_identifier", "T">>>>>>>>

----------------------------------------------------------------------------
(* union { } as a constraint and as a type. *)

\* the texts about a union are marked by the name u
C16_Marked ==
    /\ Len(toks) >= 4
    /\ \/ Tk(2) = "identifier" /\ Lx(2) = "u"
       \/ Tk(1) = "identifier" /\ Lx(1) = "u" /\ Tk(2) = "as"

C16_Union == CHOOSE i \in 1..Len(toks) : Tk(i) = "union"

\* constraint context: after constraint u =, or after < T :
C16_InConstraint == Tk(1) = "constraint" \/ Tk(3) = "<"

C16_Negated == \E i \in 1..Len(toks) : Tk(i) = "~"

RECURSIVE C16_Alts(_)
\* the alternatives written from token i up to the "}"
C16_Alts(i) ==
    IF Tk(i) = "}" THEN <<>>
    ELSE LET j == IF Tk(i) = "~" THEN i + 1 ELSE i
         IN  <<[neg |-> j = i + 1, node |-> C15_Name(j)]>>
             \o C16_Alts(IF Tk(j + 1) = "," THEN j + 2 ELSE j + 1)

C16_UnionType ==
    LET a == C16_Alts(C16_Union + 2)
    IN  <<"union_type", <<"union_body", [k \in 1..Len(a) |-> a[k].node]>>>>

C16_UnionConstraint ==
    LET a == C16_Alts(C16_Union + 2)
    IN  <<"constraint_term", "",
          <<"constraint_union_expression",
            [k \in 1..Len(a) |->
               <<"constraint_union_term", IF a[k].neg THEN "~" ELSE "", a[k].node>>]>>>>

\* the node read where the union stands
C16_Read ==
    CASE Tk(1) = "constraint" -> tree[1][3][3]
      [] Tk(1) = "type" /\ Tk(3) = "<" -> tree[1][3][2][1][3][3]
      [] Tk(1) = "fn" /\ Tk(3) = "<" -> tree[1][4][2][1][3][3]
      [] Tk(1) = "let" -> tree[1][2][1][3]
      [] Tk(1) = "type" /\ Tk(3) # "<" -> tree[1][4]
      [] Tk(1) = "fn" /\ Tk(3) # "<" -> tree[1][5][2][1][5]
      [] OTHER -> tree[1][2][3]

\* C16: union { ... } parses as a constraint_union_expression only in
\* constraint context (after constraint Name = or in a <T: ...> bound); in a
\* type position the same tokens parse as a union_type with a union_body,
\* and with a "~" before an alternative they are not accepted there.
C16_UnionByContext ==
    (pc = "done" /\ C16_Marked) =>
        /\ C16_InConstraint => errors = <<>> /\ C16_Read = C16_UnionConstraint
        /\ (~C16_InConstraint /\ ~C16_Negated) => errors = <<>> /\ C16_Read = C16_UnionType
        /\ (~C16_InConstraint /\ C16_Negated) => errors # <<>>

C16_Witness ==
    /\ pc = "done"
    /\ toks = <<Kw("let"), Id("u"), Kw(":"), Kw("union"), Kw("{"), Kw("i32"), Kw(","), Id("T"),
                Kw("}")>>
    /\ errors = <<>>
    /\ tree[1][2][1][3] =
          <<"union_type",
            <<"union_body", <<<<"primitive_type", "i32">>, <<"type_identifier", "T">>>>>>>>

----------------------------------------------------------------------------
(* Keywords where a name is expected. *)

\* the index of a token that names a variable, a function, a field or a type
C17_NameAt ==
    IF Tk(1) \in {"let", "fn", "type"} THEN 2
    ELSE IF Tk(2) = "." THEN 3
    ELSE 0

\* C17: a word spelled like a keyword is the keyword in every position and
\* never an identifier: a text with a keyword where a variable, a function,
\* a field or a type is named is not accepted.
C17_KeywordsReserved ==
    (pc = "done" /\ C17_NameAt > 0 /\ Tk(C17_NameAt) \in Keywords) => errors # <<>>

----------------------------------------------------------------------------
(* Termination: tokenizing and parsing of texts and of token sequences. *)

\* source texts with no token at some offset, with a statement that does
\* not parse, and with a generic call that is a comparison chain as well
LiveTexts ==
    LineInputs
    \cup {<<"$">>, <<"x", " ", "$", "$", " ", "y">>, <<"0", "x">>, <<")", ";", "x">>,
          <<"l", "e", "t", " ", "=", "1">>,
          <<"a", "<", "b", ">", "(", "c", ")">>,
          <<"a", "<", "b", ">", "(", "c", ")", " ", "$", ")">>}

InitLive ==
    \/ Init
    \/ /\ lang = "superset"
       /\ src \in LiveTexts
       /\ at = 1
       /\ toks = <<>>
       /\ versions = Start
       /\ errors = <<>>
       /\ tree = <<>>
       /\ accepted = {}
       /\ pc = "lex"

\* the lexer and the parser are run to the end: a step that can be taken is taken
SpecLive == InitLive /\ [][NextLex]_vars /\ WF_vars(NextLex)

\* the places where the grammar's listed conflicts let a reading fork: a "<"
C18_Forks == Cardinality({i \in 1..Len(toks) : Tk(i) = "<"})

----------------------------------------------------------------------------
(* The arms of a match. *)

\* the index of the match of value m, 0 in a text without one
C19_Match ==
    IF Len(toks) >= 4 /\ Tk(1) = "match" /\ Tk(2) = "identifier" /\ Lx(2) = "m" THEN 1
    ELSE IF Len(toks) >= 7 /\ Tk(4) = "match" /\ Tk(5) = "identifier" /\ Lx(5) = "m" THEN 4
    ELSE 0

\* the body written at token i, and the number of its tokens
C19_Body(i) ==
    IF Tk(i) = "{" /\ Tk(i + 1) = "}" THEN [node |-> <<"composite_literal", <<>>>>, len |-> 2]
    ELSE IF Tk(i) = "{"
    THEN [node |-> <<"block", <<<<"return_statement", Absent, "">>>>>>, len |-> 3]
    ELSE [node |-> <<"identifier", Lx(i)>>, len |-> 1]

RECURSIVE C19_Arms(_)
\* the arms written from token i up to the "}", in source order
C19_Arms(i) ==
    IF Tk(i) = "}" THEN <<>>
    ELSE LET b == C19_Body(i + 2)
             after == i + 2 + b.len
             pattern == IF Tk(i) = "_" THEN <<"wildcard_pattern">> ELSE <<"identifier", Lx(i)>>
         IN  <<<<"match_arm", pattern, b.node>>>>
             \o C19_Arms(IF Tk(after) = "," THEN after + 1 ELSE after)

\* the node read for the match
C19_Read == IF C19_Match = 1 THEN tree[1][2] ELSE tree[1][2][1][4]

\* C19: in a match arm whose pattern is the single token "_" the pattern
\* is recorded as wildcard_pattern, never as an identifier expression, and
\* the arms are recorded in source order, each with its pattern and body.
C19_WildcardArms ==
    (pc = "done" /\ C19_Match > 0) =>
        /\ errors = <<>>
        /\ C19_Read = <<"match_expression", <<"identifier", "m">>, C19_Arms(C19_Match + 3)>>

C19_Witness ==
    /\ pc = "done"
    /\ toks = <<Kw("match"), Id("m"), Kw("{"), Id("y"), Kw("=>"), Id("z"), Kw(","),
                Kw("_"), Kw("=>"), Kw("{"), Kw("return"), Kw("}"), Kw("}")>>
    /\ errors = <<>>
    /\ tree[1][2][3][1] = <<"match_arm", <<"identifier", "y">>, <<"identifier", "z">>>>
    /\ tree[1][2][3][2][2] = <<"wildcard_pattern">>

====
